---- MODULE Spec2Model ----
(***************************************************************************)
(* Model of the momentum-stock-bot scan orchestrators (src/index.js).      *)
(*                                                                         *)
(* src/index.js holds three programs one after the other:                  *)
(*   "macd"     lines    1-564   MACD-cross scanner, module-level alert    *)
(*                               maps, token-bucket limiter, setInterval   *)
(*   "momentum" lines  565-1046  threshold scanner, per-bot MomentumScanner*)
(*                               and back-off limiter, setInterval and a   *)
(*                               scan-now command that builds a new bot    *)
(*   "loop"     lines 1048-1341  threshold scanner driven by a while loop, *)
(*                               no interaction handler                    *)
(* The variable `variant` says which of the three programs is running.     *)
(*                                                                         *)
(* Time is Date.now() in milliseconds.  Handlers run to their next await   *)
(* in one step; every await (limiter sleep, pacing delay, data request,    *)
(* channel.send) is a suspension point at which other handlers may run.    *)
(***************************************************************************)
EXTENDS Integers, Sequences, FiniteSets, TLC

VARIABLES
    variant,        \* which program of src/index.js runs
    now,            \* Date.now()
    WATCHLIST,      \* the watchlist array
    lastAlertAt,    \* per gate instance: ticker -> time of last alert (NoTime: absent)
    dailyAlerts,    \* per gate instance: ticker -> alerts counted today
    lastDailyReset, \* per gate instance: day of the last counter reset
    tokens,         \* yahooLimiter.tokens, in units of 1/MsPerToken token
    lastRefill,     \* yahooLimiter.lastRefill
    rateLimiter,    \* per instance: [lastRequest, backoffDelay, rateLimited]
    scanning,       \* macd: the `scanning` flag
    loopHandle,     \* the setInterval timer is armed
    nextTickAt,     \* when the armed interval timer is next due
    passes,         \* per pass slot: the position of one runScanOnce / scanAndPost call
    event,          \* what the last step did at the AlertGate / notifier (observation):
                    \* op, gate instance, ticker, pass; ok: the verdict / the delivery;
                    \* rolled: the day changed; prior, priorLast: the ticker's count and
                    \* last alert time before the step; passed: the evaluation passed;
                    \* calls: recordAlert calls made; holder: pendingAllow before the step;
                    \* data: the series the macd scan evaluated
    pendingAllow,   \* per gate instance and ticker: the pass whose canAlert allow is the
                    \* latest gate operation on that ticker (0: none)
    lastRecordAt,   \* ticker -> time of the latest recordAlert on any instance
    manualScans,    \* scan-now commands handled so far
    closes,         \* the close prices handed to the indicator functions
    calc            \* the indicator function last called on closes, and its result

vars == <<variant, now, WATCHLIST, lastAlertAt, dailyAlerts, lastDailyReset, tokens,
          lastRefill, rateLimiter, scanning, loopHandle, nextTickAt, passes, event,
          pendingAllow, lastRecordAt, manualScans, closes, calc>>

calcVars == <<closes, calc>>

\* no indicator function has been called
NoCalc == [op |-> "none", period |-> 0, out |-> <<>>, last |-> [m |-> 0, e |-> 1]]

(***************************** bounds **************************************)
\* pass slots: how many scan passes the model can hold in flight at once
MaxPasses == 2
\* scan-now commands per run
MaxManualScans == 1
\* the clock stops after this many ClockStep jumps
HorizonSteps == 2
\* token bucket runs: tickers per scan, and how many 200 ms polls the clock covers
BucketCalls == 41
BucketPolls == 8
\* bits in the significand of the floating-point numbers (a double has 53)
MantissaBits == 6
\* bars in the price histories given to emaSeries, ema and findLocalExtrema
ShortBars == 5

(************************* program constants *******************************)
MAX_ALERTS_PER_DAY == 20
ALERT_COOLDOWN_MINUTES == 15
maxPerMinute == 40
POLL_INTERVAL_SEC == 60
SCAN_INTERVAL_MINUTES == 5
BATCH_SIZE == 5
DELAY_BETWEEN_STOCKS == 2000
DELAY_BETWEEN_BATCHES == 10000
RETRY_DELAY == 2000
ERROR_DELAY == 60000
CONSUME_RETRY_MS == 200
minDelay == 1000
initialBackoff == 5000
maxBackoff == 30000
MsPerMinute == 60000
MsPerSecond == 1000
NoTime == -1
MACD_FAST == 12
MACD_SLOW == 26
MACD_SIGNAL == 9

MsPerDay == 24 * 60 * MsPerMinute
\* the token bucket refills maxPerMinute/60 tokens per second: one token per MsPerToken
MsPerToken == MsPerMinute \div maxPerMinute
\* the clock moves in jumps of five minutes, from five minutes before midnight
ClockStep == 5 * MsPerMinute
StartClock == MsPerDay - ClockStep
MaxClock == StartClock + HorizonSteps * ClockStep

Variants == {"macd", "momentum", "loop"}
Symbols == {"AAPL", "TSLA"}
InitWatchlist == <<"AAPL", "TSLA">>
PassIds == 1 .. MaxPasses
\* gate / limiter instances: 0 is the one made at startup (the module-level maps of
\* macd, the bot made in the ready handler), p > 0 the bot scan-now made for slot p
Insts == 0 .. MaxPasses

Min(a, b) == IF a < b THEN a ELSE b

\* new Date().toDateString(): the calendar day of a time
DayOf(t) == t \div MsPerDay

(***************************** AlertGate ***********************************)
\* An alert store is [last: ticker -> time, count: ticker -> Nat, reset: day].
FreshGate(t) ==
    [last |-> [s \in Symbols |-> NoTime], count |-> [s \in Symbols |-> 0], reset |-> DayOf(t)]

\* resetDailyCounts had it only moved the day key and kept the counters
ResetDailyCountsKeepCounts(g, t) ==
    IF DayOf(t) # g.reset THEN [g EXCEPT !.reset = DayOf(t)] ELSE g

\* resetDailyCounts / resetDailyCounters
ResetDailyCounts(g, t) ==
    IF DayOf(t) # g.reset
    THEN [g EXCEPT !.count = [s \in Symbols |-> 0], !.reset = DayOf(t)]
    ELSE g

\* canAlert had it demanded strictly more than the cooldown
CanAlertVerdictStrict(g, s, t) ==
    IF g.count[s] >= MAX_ALERTS_PER_DAY THEN FALSE
    ELSE IF g.last[s] = NoTime THEN TRUE
    ELSE (t - g.last[s]) > ALERT_COOLDOWN_MINUTES * MsPerMinute

\* canAlert / canSendAlert after resetDailyCounts has run on g
CanAlertVerdict(g, s, t) ==
    IF g.count[s] >= MAX_ALERTS_PER_DAY THEN FALSE
    ELSE IF g.last[s] = NoTime THEN TRUE
    ELSE (t - g.last[s]) >= ALERT_COOLDOWN_MINUTES * MsPerMinute

\* recordAlert had it stamped every ticker with the alert time
RecordAlertStampAll(g, s, t) ==
    [g EXCEPT !.last = [x \in Symbols |-> t], !.count[s] = @ + 1]

\* recordAlert
RecordAlert(g, s, t) ==
    [g EXCEPT !.last[s] = t, !.count[s] = @ + 1]

\* the send-and-record step had recordAlert stood outside the try
AfterSendAlways(g, s, ok, t) == RecordAlert(g, s, t)

\* the send-and-record step had recordAlert been left out
AfterSendNever(g, s, ok, t) == g

\* the try/catch around channel.send: recordAlert only when send resolved
AfterSend(g, s, ok, t) ==
    IF ok THEN RecordAlert(g, s, t) ELSE g

Gate(k) == [last |-> lastAlertAt[k], count |-> dailyAlerts[k], reset |-> lastDailyReset[k]]

SetGate(k, g) ==
    /\ lastAlertAt' = [lastAlertAt EXCEPT ![k] = g.last]
    /\ dailyAlerts' = [dailyAlerts EXCEPT ![k] = g.count]
    /\ lastDailyReset' = [lastDailyReset EXCEPT ![k] = g.reset]

gateVars == <<lastAlertAt, dailyAlerts, lastDailyReset>>

(************************* token bucket (macd) *****************************)
\* _refill had it left out Math.min
RefillNoCap(tk, lr, t) ==
    IF t - lr > 0
    THEN [tokens |-> tk + (t - lr), lastRefill |-> t]
    ELSE [tokens |-> tk, lastRefill |-> lr]

\* _refill: [tokens, lastRefill] after a refill at time t
Refill(tk, lr, t) ==
    IF t - lr > 0
    THEN [tokens |-> Min(maxPerMinute * MsPerToken, tk + (t - lr)), lastRefill |-> t]
    ELSE [tokens |-> tk, lastRefill |-> lr]

(************************* back-off limiter ********************************)
\* backoffDelay is kept in half milliseconds: 1.5 times an odd number of
\* milliseconds is not a whole number of milliseconds.  reported is not a field of
\* the class: it observes the backoffDelay that was in force at the last
\* markRateLimited() no wait() has followed yet, 0 when there is none
FreshLimiter ==
    [lastRequest |-> NoTime, backoffDelay |-> 2 * initialBackoff, rateLimited |-> FALSE,
     reported |-> 0]

MarkRateLimited(rl) ==
    [rl EXCEPT !.rateLimited = TRUE,
               !.reported = rl.backoffDelay,
               !.backoffDelay = Min((@ * 3) \div 2, 2 * maxBackoff)]

\* reset had it cleared the throttled flag as well
ResetLimiterAndFlag(rl) == [rl EXCEPT !.backoffDelay = 2 * initialBackoff, !.rateLimited = FALSE]

\* RateLimiter.reset()
ResetLimiter(rl) == [rl EXCEPT !.backoffDelay = 2 * initialBackoff]

(******************************* passes ************************************)
\* shared: the pass iterates over the very array WATCHLIST names (macd, until a
\* remove-ticker command makes WATCHLIST name a new array)
IdlePass ==
    [pc |-> "idle", inst |-> 0, tickers |-> <<>>, i |-> 0, j |-> 0,
     attempt |-> 0, wakeAt |-> 0, total |-> 0, done |-> 0, err |-> FALSE, shared |-> FALSE]

\* What fetchCloseSeries hands to analyzeTicker, as far as the scan reads it: the
\* number of bars, the MACD and signal line at the last two bars, the last two
\* closes.  bars = 0: fetchCloseSeries returned null (no rows, or the request threw)
NoSeries ==
    [bars |-> 0, macdPrev |-> 0, signalPrev |-> 0, macdNow |-> 0, signalNow |-> 0,
     price |-> 0, prevPrice |-> 0]

NoEvent ==
    [op |-> "none", inst |-> 0, sym |-> "", pass |-> 0, ok |-> FALSE, rolled |-> FALSE,
     prior |-> 0, priorLast |-> NoTime, passed |-> FALSE, calls |-> 0, holder |-> 0,
     data |-> NoSeries, outcome |-> "none", attempt |-> 0]

InFlight(p) == passes[p].pc \notin {"idle", "scanWait", "errorWait"}

FreeSlots == {p \in DOMAIN passes : passes[p].pc = "idle"}

Sym(ps) == ps.tickers[ps.j]



(******************** AlertGate use by the orchestrators *******************)
\* canAlert(s) as pass p calls it on gate instance k, having evaluated `outcome`
DoCanAlert(p, k, s, outcome, d) ==
    LET g0 == Gate(k)
        g1 == ResetDailyCounts(g0, now)
        ok == CanAlertVerdict(g1, s, now)
    IN /\ SetGate(k, g1)
       /\ event' = [NoEvent EXCEPT !.op = "canAlert", !.inst = k, !.sym = s, !.pass = p,
                                   !.ok = ok, !.rolled = (DayOf(now) # g0.reset),
                                   !.prior = g0.count[s], !.priorLast = g0.last[s],
                                   !.passed = (outcome \in {"pass", "accept"}),
                                   !.data = d]
       /\ pendingAllow' = [pendingAllow EXCEPT ![k][s] = IF ok THEN p ELSE 0]

Allowed(k, s) == CanAlertVerdict(ResetDailyCounts(Gate(k), now), s, now)

\* the evaluation ended without consulting the gate
DoSkip(p, k, s, outcome, d) ==
    /\ event' = [NoEvent EXCEPT !.op = "skip", !.inst = k, !.sym = s, !.pass = p, !.data = d,
                                !.outcome = outcome, !.attempt = passes[p].attempt]
    /\ UNCHANGED <<gateVars, pendingAllow>>

\* channel.send(...) of pass p for ticker s settled: resolved (ok) or rejected
DoSendReturn(p, k, s, ok) ==
    LET g0 == Gate(k)
        g1 == AfterSend(g0, s, ok, now)
        calls == g1.count[s] - g0.count[s]
    IN /\ SetGate(k, g1)
       /\ event' = [NoEvent EXCEPT !.op = IF ok THEN "sendOk" ELSE "sendFail",
                                   !.inst = k, !.sym = s, !.pass = p, !.ok = ok,
                                   !.prior = g0.count[s], !.priorLast = g0.last[s],
                                   !.calls = calls, !.holder = pendingAllow[k][s]]
       /\ lastRecordAt' = [lastRecordAt EXCEPT ![s] = IF calls > 0 THEN now ELSE @]
       /\ pendingAllow' = [pendingAllow EXCEPT ![k][s] = IF calls > 0 THEN 0 ELSE @]

(************************ macd: runScanOnce ********************************)
\* what analyzeTicker and the filters of runScanOnce make of one ticker:
\*   "nodata"   analyzeTicker returned null (no data, or too few bars)
\*   "nocross"  res.cross is null
\*   "bearish"  a bearish cross
\*   "weak"     a bullish cross whose histogram or price is not rising
\*   "pass"     a bullish cross with rising histogram and rising price
MacdOutcomes == {"nodata", "nocross", "bearish", "weak", "pass"}

\* the series the scan is given: every reading at one of three levels, the signal
\* line and the previous close at the middle one; the MACD line moves and ends off
\* the signal line; a history one bar short of MinBars is one that would alert if
\* it were analysed
Levels == 1 .. 3
MidLevel == 2
MinBars == MACD_SLOW + MACD_SIGNAL + 2
SeriesInputs ==
    {NoSeries} \cup
    {d \in [bars : {MinBars - 1, MinBars}, macdPrev : Levels, signalPrev : {MidLevel},
            macdNow : Levels, signalNow : {MidLevel}, price : Levels, prevPrice : {MidLevel}] :
        /\ d.macdNow # d.signalNow
        /\ d.macdPrev # d.macdNow
        /\ d.price >= d.prevPrice
        /\ d.bars < MinBars => d.macdPrev < d.signalPrev /\ d.macdNow > d.signalNow
                                /\ d.price > d.prevPrice}

NoResult ==
    [ok |-> FALSE, cross |-> "none", histNow |-> 0, histPrev |-> 0, price |-> 0, prevPrice |-> 0]

\* the readings analyzeTicker returns for a series long enough
Readings(d) ==
    [ok |-> TRUE,
     cross |-> IF d.macdPrev > d.signalPrev /\ d.macdNow < d.signalNow THEN "bearish-cross"
               ELSE IF d.macdPrev < d.signalPrev /\ d.macdNow > d.signalNow
                    THEN "bullish-cross"
               ELSE "none",
     histNow |-> d.macdNow - d.signalNow,
     histPrev |-> d.macdPrev - d.signalPrev,
     price |-> d.price,
     prevPrice |-> d.prevPrice]

\* analyzeTicker had it asked for MACD_SLOW + MACD_SIGNAL bars only
AnalyzeTickerFewerBars(d) ==
    IF d.bars = 0 THEN NoResult
    ELSE IF d.bars < MACD_SLOW + MACD_SIGNAL THEN NoResult
    ELSE Readings(d)

\* analyzeTicker on the series d: null, or the cross and the readings
AnalyzeTicker(d) ==
    IF d.bars = 0 THEN NoResult
    ELSE IF d.bars < MACD_SLOW + MACD_SIGNAL + 2 THEN NoResult
    ELSE Readings(d)

\* the filters of runScanOnce had the price test let an unchanged price through
ScanFilterFlatPrice(res) ==
    IF ~res.ok THEN "nodata"
    ELSE IF res.cross = "none" THEN "nocross"
    ELSE IF res.cross # "bullish-cross" THEN "bearish"
    ELSE IF ~(res.histNow > res.histPrev) THEN "weak"
    ELSE IF ~(res.price >= res.prevPrice) THEN "weak"
    ELSE "pass"

\* the filters of runScanOnce on analyzeTicker's result
ScanFilter(res) ==
    IF ~res.ok THEN "nodata"
    ELSE IF res.cross = "none" THEN "nocross"
    ELSE IF res.cross # "bullish-cross" THEN "bearish"
    ELSE IF ~(res.histNow > res.histPrev) THEN "weak"
    ELSE IF ~(res.price > res.prevPrice) THEN "weak"
    ELSE "pass"

\* consume had it debited as soon as the bucket held anything at all
ConsumeFromAnyToken(ps, tk, lr, t) ==
    LET r == Refill(tk, lr, t)
    IN IF r.tokens <= 0
       THEN [pass |-> [ps EXCEPT !.pc = "sleep", !.wakeAt = t + CONSUME_RETRY_MS],
             tokens |-> r.tokens, lastRefill |-> r.lastRefill]
       ELSE [pass |-> [ps EXCEPT !.pc = "fetch"],
             tokens |-> r.tokens - MsPerToken, lastRefill |-> r.lastRefill]

\* consume had it debited the token before the test of the while loop
ConsumeFromDebitFirst(ps, tk, lr, t) ==
    LET r == Refill(tk, lr, t)
    IN IF r.tokens < MsPerToken
       THEN [pass |-> [ps EXCEPT !.pc = "sleep", !.wakeAt = t + CONSUME_RETRY_MS],
             tokens |-> r.tokens - MsPerToken, lastRefill |-> r.lastRefill]
       ELSE [pass |-> [ps EXCEPT !.pc = "fetch"],
             tokens |-> r.tokens - MsPerToken, lastRefill |-> r.lastRefill]

\* yahooLimiter.consume() from a _refill() on: debit one token, or sleep 200 ms
\* and retry
ConsumeFrom(ps, tk, lr, t) ==
    LET r == Refill(tk, lr, t)
    IN IF r.tokens < MsPerToken
       THEN [pass |-> [ps EXCEPT !.pc = "sleep", !.wakeAt = t + CONSUME_RETRY_MS],
             tokens |-> r.tokens, lastRefill |-> r.lastRefill]
       ELSE [pass |-> [ps EXCEPT !.pc = "fetch"],
             tokens |-> r.tokens - MsPerToken, lastRefill |-> r.lastRefill]

\* the for loop of runScanOnce moves to its next ticker (analyzeTicker,
\* fetchCloseSeries, consume), or the scan is finished
NextTicker(ps, tk, lr, t) ==
    IF ps.j < Len(ps.tickers)
    THEN ConsumeFrom([ps EXCEPT !.j = @ + 1], tk, lr, t)
    ELSE [pass |-> [ps EXCEPT !.pc = "idle"], tokens |-> tk, lastRefill |-> lr]

\* runScanOnce(channel, tickers = WATCHLIST) up to its first await
BeginMacd(wl, tk, lr, t) ==
    NextTicker([IdlePass EXCEPT !.tickers = wl, !.total = Len(wl), !.shared = TRUE], tk, lr, t)

\* pass p of macd goes on to r
MacdGoes(p, r) ==
    /\ passes' = [passes EXCEPT ![p] = r.pass]
    /\ tokens' = r.tokens
    /\ lastRefill' = r.lastRefill

\* yahooFinance.historical settled; analyzeTicker and the rest of the loop body run
\* up to channel.send
MacdEvaluate(p, d) ==
    /\ variant = "macd"
    /\ passes[p].pc = "fetch"
    /\ LET ps == [passes[p] EXCEPT !.done = @ + 1]
           s == Sym(ps)
           outcome == ScanFilter(AnalyzeTicker(d))
       IN IF outcome \in {"nodata", "nocross"}
          THEN /\ DoSkip(p, 0, s, outcome, d)
               /\ MacdGoes(p, NextTicker(ps, tokens, lastRefill, now))
          ELSE /\ DoCanAlert(p, 0, s, outcome, d)
               /\ IF Allowed(0, s) /\ outcome = "pass"
                  THEN /\ passes' = [passes EXCEPT ![p] = [ps EXCEPT !.pc = "send"]]
                       /\ UNCHANGED <<tokens, lastRefill>>
                  ELSE MacdGoes(p, NextTicker(ps, tokens, lastRefill, now))
    /\ UNCHANGED <<calcVars, variant, now, WATCHLIST, rateLimiter, scanning, loopHandle, nextTickAt,
                   lastRecordAt, manualScans>>

\* channel.send settled inside the try of runScanOnce
MacdSendReturn(p, ok) ==
    /\ variant = "macd"
    /\ passes[p].pc = "send"
    /\ DoSendReturn(p, 0, Sym(passes[p]), ok)
    /\ MacdGoes(p, NextTicker(passes[p], tokens, lastRefill, now))
    /\ UNCHANGED <<calcVars, variant, now, WATCHLIST, rateLimiter, scanning, loopHandle, nextTickAt,
                   manualScans>>


(**************** momentum / loop: scanAndPost, scanBatch ******************)
\* what yahooFinance.quote and checkMomentum make of one request:
\*   "error"      quote threw, or returned no price
\*   "throttled"  quote threw an error whose message names a rate limit
\*   "reject"     checkMomentum returned false
\*   "accept"     checkMomentum returned true
QuoteOutcomes == {"error", "throttled", "reject", "accept"}

\* RateLimiter.wait(), from the lastRequest test on
WaitMinDelay(ps, rl, t) ==
    IF rl.lastRequest # NoTime /\ t - rl.lastRequest < minDelay
    THEN [pass |-> [ps EXCEPT !.pc = "minDelay",
                              !.wakeAt = t + (minDelay - (t - rl.lastRequest))],
          rl |-> rl]
    ELSE [pass |-> [ps EXCEPT !.pc = "fetch"], rl |-> [rl EXCEPT !.lastRequest = t]]

\* RateLimiter.wait() up to its first await; setTimeout drops the fraction of a
\* delay that is not a whole number of milliseconds
WaitEnter(ps, rl, t) ==
    IF rl.rateLimited
    THEN [pass |-> [ps EXCEPT !.pc = "backoff", !.wakeAt = t + rl.backoffDelay \div 2],
          rl |-> [rl EXCEPT !.reported = 0]]
    ELSE WaitMinDelay(ps, [rl EXCEPT !.reported = 0], t)

\* the end of scanAndPost: momentum returns to its caller, loop sleeps in start()
ScanEnd(ps, t, v) ==
    IF v = "loop"
    THEN [ps EXCEPT !.pc = "scanWait", !.wakeAt = t + SCAN_INTERVAL_MINUTES * MsPerMinute]
    ELSE [ps EXCEPT !.pc = "idle"]

\* the for loop of scanAndPost at its test i < WATCHLIST.length
ScanLoop(ps, rl, t, wl, v) ==
    IF ps.i < Len(wl)
    THEN WaitEnter([ps EXCEPT !.tickers = SubSeq(wl, ps.i + 1, Min(ps.i + BATCH_SIZE, Len(wl))),
                              !.j = 1, !.attempt = 1], rl, t)
    ELSE [pass |-> ScanEnd(ps, t, v), rl |-> rl]

\* the for loop of scanBatch after one ticker; after the last, the rest of the
\* scanAndPost loop body
NextItem(ps, rl, t, wl, v) ==
    IF ps.j < Len(ps.tickers)
    THEN WaitEnter([ps EXCEPT !.j = @ + 1, !.attempt = 1], rl, t)
    ELSE IF ps.i + BATCH_SIZE < Len(wl)
         THEN [pass |-> [ps EXCEPT !.pc = "batchDelay", !.wakeAt = t + DELAY_BETWEEN_BATCHES],
               rl |-> rl]
         ELSE ScanLoop([ps EXCEPT !.i = @ + BATCH_SIZE], rl, t, wl, v)

\* after a ticker of scanBatch: the pacing delay (loop has none when data is null)
AfterItem(ps, rl, t, wl, v, nodata) ==
    IF v = "loop" /\ nodata
    THEN NextItem(ps, rl, t, wl, v)
    ELSE [pass |-> [ps EXCEPT !.pc = "itemDelay", !.wakeAt = t + DELAY_BETWEEN_STOCKS],
          rl |-> rl]

\* scanAndPost(channel) of the bot of instance k up to its first await
BeginScan(k, rl, t, wl, v) ==
    ScanLoop([IdlePass EXCEPT !.inst = k, !.total = Len(wl)], rl, t, wl, v)

\* a setTimeout sleep of pass p is over
Resume(p) ==
    /\ passes[p].pc \in {"sleep", "backoff", "minDelay", "retryDelay", "itemDelay",
                         "batchDelay", "scanWait", "errorWait"}
    /\ now >= passes[p].wakeAt
    /\ IF passes[p].pc = "sleep"
       THEN /\ MacdGoes(p, ConsumeFrom(passes[p], tokens, lastRefill, now))
            /\ UNCHANGED rateLimiter
       ELSE
       LET ps == passes[p]
           k == ps.inst
           rl == rateLimiter[k]
           r == CASE ps.pc = "backoff" ->
                       WaitMinDelay(ps, [rl EXCEPT !.rateLimited = FALSE], now)
                  [] ps.pc = "minDelay" ->
                       [pass |-> [ps EXCEPT !.pc = "fetch"],
                        rl |-> [rl EXCEPT !.lastRequest = now]]
                  [] ps.pc = "retryDelay" ->
                       WaitEnter([ps EXCEPT !.attempt = 2], rl, now)
                  [] ps.pc = "itemDelay" ->
                       NextItem(ps, rl, now, WATCHLIST, variant)
                  [] ps.pc = "batchDelay" ->
                       ScanLoop([ps EXCEPT !.i = @ + BATCH_SIZE], rl, now, WATCHLIST, variant)
                  [] OTHER ->
                       BeginScan(k, rl, now, WATCHLIST, variant)
       IN /\ passes' = [passes EXCEPT ![p] = r.pass]
          /\ rateLimiter' = [rateLimiter EXCEPT ![k] = r.rl]
          /\ UNCHANGED <<tokens, lastRefill>>
    /\ event' = NoEvent
    /\ UNCHANGED <<calcVars, variant, now, WATCHLIST, gateVars, scanning, loopHandle, nextTickAt,
                   pendingAllow, lastRecordAt, manualScans>>

\* yahooFinance.quote settled in getStockData; on data, the rest of the scanBatch
\* loop body runs up to channel.send or the pacing delay
QuoteReturn(p, outcome) ==
    /\ variant \in {"momentum", "loop"}
    /\ passes[p].pc = "fetch"
    /\ LET ps == passes[p]
           k == ps.inst
           s == Sym(ps)
           rl == rateLimiter[k]
       IN IF outcome \in {"error", "throttled"}
          THEN LET rl1 == IF outcome = "throttled" /\ variant = "momentum"
                          THEN MarkRateLimited(rl) ELSE rl
                   r == IF ps.attempt = 2
                        THEN AfterItem([ps EXCEPT !.done = @ + 1], rl1, now, WATCHLIST,
                                       variant, TRUE)
                        ELSE [pass |-> [ps EXCEPT !.pc = "retryDelay",
                                                  !.wakeAt = now + RETRY_DELAY],
                              rl |-> rl1]
               IN /\ passes' = [passes EXCEPT ![p] = r.pass]
                  /\ rateLimiter' = [rateLimiter EXCEPT ![k] = r.rl]
                  /\ IF ps.attempt = 2
                     THEN DoSkip(p, k, s, outcome, NoSeries)
                     ELSE /\ event' = [NoEvent EXCEPT !.op = "retry", !.inst = k, !.sym = s,
                                                     !.pass = p, !.outcome = outcome,
                                                     !.attempt = ps.attempt]
                          /\ UNCHANGED <<gateVars, pendingAllow>>
          ELSE IF outcome = "accept"
          THEN /\ DoCanAlert(p, k, s, outcome, NoSeries)
               /\ IF Allowed(k, s)
                  THEN /\ passes' = [passes EXCEPT ![p] = [ps EXCEPT !.pc = "send",
                                                                     !.done = @ + 1]]
                       /\ UNCHANGED rateLimiter
                  ELSE LET r == AfterItem([ps EXCEPT !.done = @ + 1], rl, now, WATCHLIST,
                                          variant, FALSE)
                       IN /\ passes' = [passes EXCEPT ![p] = r.pass]
                          /\ rateLimiter' = [rateLimiter EXCEPT ![k] = r.rl]
          ELSE LET r == AfterItem([ps EXCEPT !.done = @ + 1], rl, now, WATCHLIST,
                                  variant, FALSE)
               IN /\ DoSkip(p, k, s, outcome, NoSeries)
                  /\ passes' = [passes EXCEPT ![p] = r.pass]
                  /\ rateLimiter' = [rateLimiter EXCEPT ![k] = r.rl]
    /\ UNCHANGED <<calcVars, variant, now, WATCHLIST, tokens, lastRefill, scanning, loopHandle,
                   nextTickAt, lastRecordAt, manualScans>>

\* what a rejected channel.send does to the pass: momentum catches it inside
\* scanBatch; loop has no try there, the error leaves scanBatch and scanAndPost and
\* is caught in start(), which sleeps 60 s and scans again
SendFailed(ps, rl, t, wl, v) ==
    IF v = "loop"
    THEN [pass |-> [ps EXCEPT !.pc = "errorWait", !.err = TRUE, !.wakeAt = t + ERROR_DELAY],
          rl |-> rl]
    ELSE AfterItem(ps, rl, t, wl, v, FALSE)

\* channel.send settled in scanBatch
QuoteSendReturn(p, ok) ==
    /\ variant \in {"momentum", "loop"}
    /\ passes[p].pc = "send"
    /\ LET ps == passes[p]
           k == ps.inst
           rl == rateLimiter[k]
           r == IF ok THEN AfterItem(ps, rl, now, WATCHLIST, variant, FALSE)
                      ELSE SendFailed(ps, rl, now, WATCHLIST, variant)
       IN /\ DoSendReturn(p, k, Sym(ps), ok)
          /\ passes' = [passes EXCEPT ![p] = r.pass]
          /\ rateLimiter' = [rateLimiter EXCEPT ![k] = r.rl]
    /\ UNCHANGED <<calcVars, variant, now, WATCHLIST, tokens, lastRefill, scanning, loopHandle,
                   nextTickAt, manualScans>>


(****************************** triggers ***********************************)
StartSlot == CHOOSE p \in FreeSlots : \A q \in FreeSlots : p <= q

\* a scan pass starts in slot p on instance k: runScanOnce (macd) or scanAndPost
StartPass(p, k, rl) ==
    IF variant = "macd"
    THEN /\ MacdGoes(p, BeginMacd(WATCHLIST, tokens, lastRefill, now))
         /\ rateLimiter' = [rateLimiter EXCEPT ![k] = rl]
    ELSE LET r == BeginScan(k, rl, now, WATCHLIST, variant)
         IN /\ passes' = [passes EXCEPT ![p] = r.pass]
            /\ rateLimiter' = [rateLimiter EXCEPT ![k] = r.rl]
            /\ UNCHANGED <<tokens, lastRefill>>

\* the client's ready handler: startLoop(client) (macd), bot.start() (momentum, loop)
Ready ==
    /\ ~scanning
    /\ ~loopHandle
    /\ \A p \in PassIds : passes[p].pc = "idle"
    /\ StartPass(1, 0, rateLimiter[0])
    /\ scanning' = (variant = "macd")
    /\ loopHandle' = (variant # "loop")
    /\ nextTickAt' = IF variant = "macd" THEN now + POLL_INTERVAL_SEC * MsPerSecond
                     ELSE IF variant = "momentum" THEN now + SCAN_INTERVAL_MINUTES * MsPerMinute
                     ELSE nextTickAt
    /\ event' = NoEvent
    /\ UNCHANGED <<calcVars, variant, now, WATCHLIST, gateVars, pendingAllow,
                   lastRecordAt, manualScans>>

\* the setInterval callback fires
TimerTick ==
    /\ loopHandle
    /\ now >= nextTickAt
    /\ FreeSlots # {}
    /\ StartPass(StartSlot, 0, rateLimiter[0])
    /\ nextTickAt' = IF variant = "macd" THEN now + POLL_INTERVAL_SEC * MsPerSecond
                     ELSE now + SCAN_INTERVAL_MINUTES * MsPerMinute
    /\ event' = NoEvent
    /\ UNCHANGED <<calcVars, variant, now, WATCHLIST, gateVars, scanning,
                   loopHandle, pendingAllow, lastRecordAt, manualScans>>

\* the scan-now command: macd calls runScanOnce(channel, WATCHLIST) on the module's
\* state; momentum builds a new MomentumBot (new scanner, new limiter) and scans with it
ScanNow ==
    /\ variant \in {"macd", "momentum"}
    /\ loopHandle
    /\ manualScans < MaxManualScans
    /\ FreeSlots # {}
    /\ manualScans' = manualScans + 1
    /\ IF variant = "macd"
       THEN /\ StartPass(StartSlot, 0, rateLimiter[0])
            /\ UNCHANGED <<gateVars, pendingAllow>>
       ELSE /\ StartPass(StartSlot, StartSlot, FreshLimiter)
            /\ SetGate(StartSlot, FreshGate(now))
            /\ pendingAllow' = [pendingAllow EXCEPT ![StartSlot] = [s \in Symbols |-> 0]]
    /\ event' = NoEvent
    /\ UNCHANGED <<calcVars, variant, now, WATCHLIST, scanning, loopHandle,
                   nextTickAt, lastRecordAt>>

\* time passes
Advance ==
    /\ now < MaxClock
    /\ now' = now + ClockStep
    /\ event' = NoEvent
    /\ UNCHANGED <<calcVars, variant, WATCHLIST, gateVars, tokens, lastRefill, rateLimiter, scanning,
                   loopHandle, nextTickAt, passes, pendingAllow, lastRecordAt, manualScans>>

(******************************** Init *************************************)
\* The alert store of a bot that has run since early in the day: AAPL has alerted
\* c times today, the last time one cooldown ago; TSLA has not alerted
BusyGate(t, c) ==
    [FreshGate(t) EXCEPT !.last["AAPL"] = t - ALERT_COOLDOWN_MINUTES * MsPerMinute,
                         !.count["AAPL"] = c]

InitCommon(g) ==
    /\ variant \in Variants
    /\ now = StartClock
    /\ WATCHLIST = InitWatchlist
    /\ lastAlertAt = [k \in Insts |-> IF k = 0 THEN g.last ELSE FreshGate(now).last]
    /\ dailyAlerts = [k \in Insts |-> IF k = 0 THEN g.count ELSE FreshGate(now).count]
    /\ lastDailyReset = [k \in Insts |-> DayOf(now)]
    /\ event = NoEvent
    /\ pendingAllow = [k \in Insts |-> [s \in Symbols |-> 0]]
    /\ lastRecordAt = g.last
    /\ manualScans = 0
    /\ closes = <<>>
    /\ calc = NoCalc

\* the process right after the module has loaded, before the ready event
InitCold ==
    /\ InitCommon(FreshGate(StartClock))
    /\ tokens = maxPerMinute * MsPerToken
    /\ lastRefill = now
    /\ rateLimiter = [k \in Insts |-> FreshLimiter]
    /\ scanning = FALSE
    /\ loopHandle = FALSE
    /\ nextTickAt = 0
    /\ passes = [p \in PassIds |-> IdlePass]

\* the process between two scans later in the day: the previous scan ended one
\* ClockStep ago, the interval timer (the sleep of start() in loop) is due
InitWarm ==
    /\ \E c \in {MAX_ALERTS_PER_DAY - 1, MAX_ALERTS_PER_DAY} : InitCommon(BusyGate(StartClock, c))
    /\ tokens = (maxPerMinute - 1) * MsPerToken
    /\ lastRefill = now - ClockStep
    /\ rateLimiter = [k \in Insts |-> IF k = 0
                                      THEN [FreshLimiter EXCEPT !.lastRequest = now - ClockStep]
                                      ELSE FreshLimiter]
    /\ scanning = (variant = "macd")
    /\ loopHandle = (variant # "loop")
    /\ nextTickAt = now
    /\ passes = [p \in PassIds |->
                   IF variant = "loop" /\ p = 1
                   THEN [IdlePass EXCEPT !.pc = "scanWait", !.wakeAt = now,
                                         !.tickers = InitWatchlist, !.j = 2,
                                         !.total = 2, !.done = 2]
                   ELSE IdlePass]

Init == InitCold \/ InitWarm

Next ==
    \/ Ready
    \/ TimerTick
    \/ ScanNow
    \/ Advance
    \/ \E p \in PassIds, d \in SeriesInputs : MacdEvaluate(p, d)
    \/ \E p \in PassIds, ok \in BOOLEAN : MacdSendReturn(p, ok)
    \/ \E p \in PassIds : Resume(p)
    \/ \E p \in PassIds, o \in QuoteOutcomes : QuoteReturn(p, o)
    \/ \E p \in PassIds, ok \in BOOLEAN : QuoteSendReturn(p, ok)

Spec == Init /\ [][Next]_vars

(********************* the token bucket under load *************************)
\* The macd program with a watchlist of BucketCalls tickers whose requests all come
\* back empty, so that a scan is a run of consume() calls; the timer pass and a
\* scan-now pass call consume() on the one yahooLimiter.  The clock moves from one
\* due timer to the next.
BucketTickers == [n \in 1 .. BucketCalls |-> IF n % 2 = 1 THEN "AAPL" ELSE "TSLA"]

BucketEnd == StartClock + BucketPolls * CONSUME_RETRY_MS

\* the wake-up times of the sleeping passes that are still ahead
DueTimes(ps) == {ps[p].wakeAt : p \in {q \in PassIds : ps[q].pc = "sleep" /\ ps[q].wakeAt > now}}

\* no timer is due, and time passes until the next one is
BucketAdvance ==
    /\ \A p \in PassIds : passes[p].pc = "sleep" => passes[p].wakeAt > now
    /\ DueTimes(passes) # {}
    /\ LET t == CHOOSE x \in DueTimes(passes) : \A y \in DueTimes(passes) : x <= y
       IN /\ t <= BucketEnd
          /\ now' = t
    /\ event' = NoEvent
    /\ UNCHANGED <<calcVars, variant, WATCHLIST, gateVars, tokens, lastRefill, rateLimiter, scanning,
                   loopHandle, nextTickAt, passes, pendingAllow, lastRecordAt, manualScans>>

\* the started macd bot, its bucket full and last refilled one ClockStep ago
InitBucket ==
    /\ variant = "macd"
    /\ now = StartClock
    /\ WATCHLIST = BucketTickers
    /\ lastAlertAt = [k \in Insts |-> FreshGate(now).last]
    /\ dailyAlerts = [k \in Insts |-> FreshGate(now).count]
    /\ lastDailyReset = [k \in Insts |-> DayOf(now)]
    /\ event = NoEvent
    /\ pendingAllow = [k \in Insts |-> [s \in Symbols |-> 0]]
    /\ lastRecordAt = [s \in Symbols |-> NoTime]
    /\ manualScans = 0
    /\ closes = <<>>
    /\ calc = NoCalc
    /\ tokens = maxPerMinute * MsPerToken
    /\ lastRefill = now - ClockStep
    /\ rateLimiter = [k \in Insts |-> FreshLimiter]
    /\ scanning = TRUE
    /\ loopHandle = TRUE
    /\ nextTickAt = now
    /\ passes = [p \in PassIds |-> IdlePass]

NextBucket ==
    \/ TimerTick
    \/ ScanNow
    \/ \E p \in PassIds : MacdEvaluate(p, NoSeries)
    \/ \E p \in PassIds : Resume(p)
    \/ BucketAdvance

SpecBucket == InitBucket /\ [][NextBucket]_vars

\* consume() calls of pass ps that have returned
Granted(ps) == IF ps.pc = "sleep" THEN ps.j - 1 ELSE ps.j

RECURSIVE SumGranted(_)
SumGranted(n) == IF n = 0 THEN 0 ELSE Granted(passes[n]) + SumGranted(n - 1)

GrantedTotal == SumGranted(MaxPasses)

(******************** consume() under lasting demand ***********************)
\* The macd program with scan-now commands that keep coming, seen from a frame that
\* moves with the clock: `now` stays where it is and the stored instants (lastRefill,
\* the wake-up times of the sleepers) move back instead; consume and _refill read
\* only differences of instants.  A lastRefill more than a minute old fills the
\* bucket whatever its age, so it is held at one minute.
FairStep == CONSUME_RETRY_MS \div 2

\* FairStep ms pass while no timer is overdue.  The bot is followed for as long as
\* a caller waits in consume(), and past that until the bucket has earned one token
\* since its last refill
ClockPasses ==
    /\ \A p \in PassIds : passes[p].pc = "sleep" => passes[p].wakeAt > now
    /\ \/ \E p \in PassIds : passes[p].pc = "sleep"
       \/ now - lastRefill < MsPerToken
    /\ lastRefill' = IF lastRefill - FairStep < now - MsPerMinute
                     THEN now - MsPerMinute ELSE lastRefill - FairStep
    /\ passes' = [p \in PassIds |->
                    IF passes[p].pc = "sleep"
                    THEN [passes[p] EXCEPT !.wakeAt = @ - FairStep]
                    ELSE passes[p]]
    /\ event' = NoEvent
    /\ UNCHANGED <<calcVars, variant, now, WATCHLIST, gateVars, tokens, rateLimiter, scanning,
                   loopHandle, nextTickAt, pendingAllow, lastRecordAt, manualScans>>

\* one more scan-now command (macd): runScanOnce(channel, WATCHLIST), not counted
ScanNowAgain ==
    /\ variant = "macd"
    /\ loopHandle
    /\ FreeSlots # {}
    /\ StartPass(StartSlot, 0, rateLimiter[0])
    /\ event' = NoEvent
    /\ UNCHANGED <<calcVars, variant, now, WATCHLIST, gateVars, scanning, loopHandle, nextTickAt,
                   pendingAllow, lastRecordAt, manualScans>>

\* the started macd bot after a burst of maxPerMinute requests: the bucket is empty
InitFair ==
    /\ variant = "macd"
    /\ now = StartClock
    /\ WATCHLIST = InitWatchlist
    /\ lastAlertAt = [k \in Insts |-> FreshGate(now).last]
    /\ dailyAlerts = [k \in Insts |-> FreshGate(now).count]
    /\ lastDailyReset = [k \in Insts |-> DayOf(now)]
    /\ event = NoEvent
    /\ pendingAllow = [k \in Insts |-> [s \in Symbols |-> 0]]
    /\ lastRecordAt = [s \in Symbols |-> NoTime]
    /\ manualScans = 0
    /\ closes = <<>>
    /\ calc = NoCalc
    /\ tokens = 0
    /\ lastRefill = now
    /\ rateLimiter = [k \in Insts |-> FreshLimiter]
    /\ scanning = TRUE
    /\ loopHandle = TRUE
    /\ nextTickAt = now + POLL_INTERVAL_SEC * MsPerSecond
    /\ passes = [p \in PassIds |-> IdlePass]

NextFair ==
    \/ ScanNowAgain
    \/ \E p \in PassIds : MacdEvaluate(p, NoSeries)
    \/ \E p \in PassIds : Resume(p)
    \/ ClockPasses

\* The clock advances, every due setTimeout callback runs, every request settles;
\* nothing is assumed of the commands
SpecFair ==
    /\ InitFair
    /\ [][NextFair]_vars
    /\ WF_vars(ClockPasses)
    /\ \A p \in PassIds : WF_vars(Resume(p))
    /\ \A p \in PassIds : WF_vars(MacdEvaluate(p, NoSeries))

(******************** the back-off limiter under load **********************)
\* The momentum and loop programs from the ready event on, with requests that fail,
\* are throttled or bring a quote checkMomentum rejects, and a request that may stay
\* open until the next timer pass of momentum starts on the same limiter.  The
\* clock moves from one due timer to the next.
BackoffOutcomes == {"error", "throttled", "reject"}

TimerPcs == {"backoff", "minDelay", "retryDelay", "itemDelay", "batchDelay", "scanWait",
             "errorWait"}

\* the instants ahead at which a setTimeout or the setInterval is due
TimersAhead ==
    {passes[p].wakeAt :
        p \in {q \in DOMAIN passes : passes[q].pc \in TimerPcs /\ passes[q].wakeAt > now}}
    \cup (IF loopHandle /\ nextTickAt > now THEN {nextTickAt} ELSE {})

\* no timer is due, and time passes until the next one is, up to the instant end
TimerAdvance(end) ==
    /\ \A p \in DOMAIN passes : passes[p].pc \in TimerPcs => passes[p].wakeAt > now
    /\ ~(loopHandle /\ now >= nextTickAt /\ FreeSlots # {})
    /\ TimersAhead # {}
    /\ LET t == CHOOSE x \in TimersAhead : \A y \in TimersAhead : x <= y
       IN /\ t <= end
          /\ now' = t
    /\ event' = NoEvent
    /\ UNCHANGED <<calcVars, variant, WATCHLIST, gateVars, tokens, lastRefill, rateLimiter, scanning,
                   loopHandle, nextTickAt, passes, pendingAllow, lastRecordAt, manualScans>>

\* rateLimiter.reset() called on the bot's limiter
ResetCall ==
    /\ variant \in {"momentum", "loop"}
    /\ \E p \in PassIds : passes[p].pc # "idle"
    /\ rateLimiter' = [rateLimiter EXCEPT ![0] = ResetLimiter(@)]
    /\ event' = [NoEvent EXCEPT !.op = "reset", !.prior = rateLimiter[0].backoffDelay]
    /\ UNCHANGED <<calcVars, variant, now, WATCHLIST, gateVars, tokens, lastRefill, scanning,
                   loopHandle, nextTickAt, passes, pendingAllow, lastRecordAt, manualScans>>

InitBackoff ==
    /\ InitCold
    /\ variant \in {"momentum", "loop"}

NextBackoff ==
    \/ Ready
    \/ TimerTick
    \/ \E p \in PassIds, o \in BackoffOutcomes : QuoteReturn(p, o)
    \/ \E p \in PassIds : Resume(p)
    \/ TimerAdvance(MaxClock)

SpecBackoff == InitBackoff /\ [][NextBackoff]_vars

\* one scan at a time on the limiter, and reset() called on it at any moment
NextReset ==
    \/ Ready
    \/ \E p \in PassIds, o \in BackoffOutcomes : QuoteReturn(p, o)
    \/ \E p \in PassIds : Resume(p)
    \/ TimerAdvance(MaxClock)
    \/ ResetCall

SpecReset == InitBackoff /\ [][NextReset]_vars

(********************* passes under fair scheduling ************************)
\* The momentum and loop programs from the ready event on: every request and every
\* channel.send settles, with data or with an error, every due timer fires, and the
\* clock moves from one due timer to the next up to MaxClock.
LiveOutcomes == {"error", "reject", "accept"}

InitLive ==
    /\ InitCold
    /\ variant \in {"momentum", "loop"}

NextLive ==
    \/ Ready
    \/ TimerTick
    \/ \E p \in PassIds, o \in LiveOutcomes : QuoteReturn(p, o)
    \/ \E p \in PassIds, ok \in BOOLEAN : QuoteSendReturn(p, ok)
    \/ \E p \in PassIds : Resume(p)
    \/ TimerAdvance(MaxClock)

SpecLive ==
    /\ InitLive
    /\ [][NextLive]_vars
    /\ WF_vars(Ready)
    /\ WF_vars(TimerTick)
    /\ WF_vars(TimerAdvance(MaxClock))
    /\ \A p \in PassIds :
          /\ WF_vars(\E o \in LiveOutcomes : QuoteReturn(p, o))
          /\ WF_vars(\E ok \in BOOLEAN : QuoteSendReturn(p, ok))
          /\ WF_vars(Resume(p))

(********************* the watchlist commands ******************************)
\* The add-ticker and remove-ticker commands arrive while a pass is suspended.
\* add-ticker is two steps, the validating request and, once it has settled with
\* data, the WATCHLIST.push, the includes() test made before still holding; the
\* price command is its request.  The bot is followed for its first
\* minute.
\* WATCHLIST.push(symbol): the array grows in place, under every runScanOnce that
\* iterates over it
AddTicker(symbol) ==
    /\ \A n \in DOMAIN WATCHLIST : WATCHLIST[n] # symbol
    /\ WATCHLIST' = Append(WATCHLIST, symbol)
    /\ passes' = [p \in DOMAIN passes |->
                    IF InFlight(p) /\ passes[p].shared
                    THEN [passes[p] EXCEPT !.tickers = Append(@, symbol), !.total = @ + 1]
                    ELSE passes[p]]
    /\ event' = NoEvent
    /\ UNCHANGED <<calcVars, variant, now, gateVars, tokens, lastRefill, rateLimiter, scanning,
                   loopHandle, nextTickAt, pendingAllow, lastRecordAt, manualScans>>

\* WATCHLIST = WATCHLIST.filter((s) => s !== symbol): a new array; a runScanOnce
\* under way keeps the old one, a scanBatch under way its slice
RemoveTicker(symbol) ==
    /\ \E n \in DOMAIN WATCHLIST : WATCHLIST[n] = symbol
    /\ WATCHLIST' = SelectSeq(WATCHLIST, LAMBDA s : s # symbol)
    /\ passes' = [p \in DOMAIN passes |->
                    IF InFlight(p) THEN [passes[p] EXCEPT !.shared = FALSE] ELSE passes[p]]
    /\ event' = NoEvent
    /\ UNCHANGED <<calcVars, variant, now, gateVars, tokens, lastRefill, rateLimiter, scanning,
                   loopHandle, nextTickAt, pendingAllow, lastRecordAt, manualScans>>

\* fetchCloseSeries(symbol) as add-ticker of macd calls it to validate the symbol:
\* consume() debits a token and yahooFinance.historical is called, or consume()
\* finds less than a token and sleeps to try again
ValidateFetch(symbol) ==
    /\ variant = "macd"
    /\ \A n \in DOMAIN WATCHLIST : WATCHLIST[n] # symbol
    /\ LET r == Refill(tokens, lastRefill, now)
       IN IF r.tokens < MsPerToken
          THEN /\ tokens' = r.tokens
               /\ lastRefill' = r.lastRefill
               /\ event' = NoEvent
          ELSE /\ tokens' = r.tokens - MsPerToken
               /\ lastRefill' = r.lastRefill
               /\ event' = [NoEvent EXCEPT !.op = "request", !.sym = symbol]
    /\ UNCHANGED <<calcVars, variant, now, WATCHLIST, gateVars, rateLimiter, scanning,
                   loopHandle, nextTickAt, passes, pendingAllow, lastRecordAt, manualScans>>

\* fetcher.fetchPrice(symbol) of the momentum program, as its add-ticker and price
\* commands call it: yahooFinance.quote is called at once
FetchPrice(symbol) ==
    /\ variant = "momentum"
    /\ event' = [NoEvent EXCEPT !.op = "request", !.sym = symbol]
    /\ UNCHANGED <<calcVars, variant, now, WATCHLIST, gateVars, tokens, lastRefill,
                   rateLimiter, scanning, loopHandle, nextTickAt, passes, pendingAllow,
                   lastRecordAt, manualScans>>

NextWatch ==
    \/ Ready
    \/ \E p \in PassIds, d \in SeriesInputs : MacdEvaluate(p, d)
    \/ \E p \in PassIds, ok \in BOOLEAN : MacdSendReturn(p, ok)
    \/ \E p \in PassIds, o \in LiveOutcomes : QuoteReturn(p, o)
    \/ \E p \in PassIds, ok \in BOOLEAN : QuoteSendReturn(p, ok)
    \/ \E p \in PassIds : Resume(p)
    \/ TimerAdvance(StartClock + MsPerMinute)
    \/ \E symbol \in Symbols : AddTicker(symbol)
    \/ \E symbol \in Symbols : RemoveTicker(symbol)
    \/ \E symbol \in Symbols : ValidateFetch(symbol)
    \/ \E symbol \in Symbols : FetchPrice(symbol)

SpecWatch == InitCold /\ [][NextWatch]_vars

(******************* scans piling up on one limiter ************************)
\* The momentum program with requests that stay open or fail: the scan the ready
\* event started is still under way when the interval timer starts the next one,
\* and that one when the timer fires again, all on the bot's one limiter.
CrowdIds == 1 .. MaxPasses + 1

CrowdOutcomes == {"error"}

CrowdEnd == MaxClock + ClockStep

InitCrowd ==
    /\ InitCommon(FreshGate(StartClock))
    /\ variant = "momentum"
    /\ tokens = maxPerMinute * MsPerToken
    /\ lastRefill = now
    /\ rateLimiter = [k \in Insts |-> FreshLimiter]
    /\ scanning = FALSE
    /\ loopHandle = FALSE
    /\ nextTickAt = 0
    /\ passes = [p \in CrowdIds |-> IdlePass]

NextCrowd ==
    \/ Ready
    \/ TimerTick
    \/ \E p \in CrowdIds, o \in CrowdOutcomes : QuoteReturn(p, o)
    \/ \E p \in CrowdIds : Resume(p)
    \/ TimerAdvance(CrowdEnd)

SpecCrowd == InitCrowd /\ [][NextCrowd]_vars

(********************** floating-point arithmetic **************************)
\* A number is m * 2^e with |m| < 2^MantissaBits, and 2^(MantissaBits-1) <= |m|
\* unless it is zero ([m |-> 0, e |-> 0]).  Every operation gives the exact result
\* rounded to the nearest such number, ties to the even significand, as the
\* arithmetic of JavaScript numbers does with 53 bits.
RECURSIVE Pow2(_)
Pow2(n) == IF n = 0 THEN 1 ELSE 2 * Pow2(n - 1)

Zero == [m |-> 0, e |-> 0]

\* null in an indicator array
Null == [m |-> 0, e |-> 1]

\* a / d * 2^e with a, d > 0, scaled until the quotient has MantissaBits bits
RECURSIVE Scale(_, _, _)
Scale(a, d, e) ==
    IF a >= d * Pow2(MantissaBits) THEN Scale(a, 2 * d, e + 1)
    ELSE IF a < d * Pow2(MantissaBits - 1) THEN Scale(2 * a, d, e - 1)
    ELSE [a |-> a, d |-> d, e |-> e]

\* the number nearest to n / d * 2^e (d > 0)
Round(n, d, e) ==
    IF n = 0 THEN Zero
    ELSE LET sgn == IF n < 0 THEN -1 ELSE 1
             t == Scale(sgn * n, d, e)
             q == t.a \div t.d
             r == t.a % t.d
             q1 == IF 2 * r > t.d \/ (2 * r = t.d /\ q % 2 = 1) THEN q + 1 ELSE q
         IN IF q1 = Pow2(MantissaBits)
            THEN [m |-> sgn * Pow2(MantissaBits - 1), e |-> t.e + 1]
            ELSE [m |-> sgn * q1, e |-> t.e]

\* the number literal n / d, and the integer n
Num(n, d) == Round(n, d, 0)
FromInt(n) == Round(n, 1, 0)

\* x + y; an operand below a quarter of the other's last place does not change it
FAdd(x, y) ==
    IF x.m = 0 THEN y
    ELSE IF y.m = 0 THEN x
    ELSE IF x.e - y.e >= MantissaBits + 2 THEN x
    ELSE IF y.e - x.e >= MantissaBits + 2 THEN y
    ELSE LET e == Min(x.e, y.e)
         IN Round(x.m * Pow2(x.e - e) + y.m * Pow2(y.e - e), 1, e)

FSub(x, y) == FAdd(x, [y EXCEPT !.m = -@])

FMul(x, y) == Round(x.m * y.m, 1, x.e + y.e)

\* x / y, y not zero
FDiv(x, y) ==
    IF y.m < 0 THEN Round(-x.m, -y.m, x.e - y.e) ELSE Round(x.m, y.m, x.e - y.e)

\* x < y, x > y
FLess(x, y) == FSub(x, y).m < 0
FGreater(x, y) == FSub(x, y).m > 0

\* values.reduce((a, b) => a + b, 0)
RECURSIVE FSum(_)
FSum(values) ==
    IF values = <<>> THEN Zero
    ELSE FAdd(FSum(SubSeq(values, 1, Len(values) - 1)), values[Len(values)])

(************************* indicator functions *****************************)
\* Arrays are sequences: index i of the source is position i + 1 here.
Nulls(n) == [i \in 1 .. n |-> Null]

\* the for loop of emaSeries: out holds the entries up to index i - 1, the last of
\* them is prev, and the entry for index i = Len(out) is the next one written
RECURSIVE EmaLoop(_, _, _)
EmaLoop(values, k, out) ==
    IF Len(out) >= Len(values) THEN out
    ELSE LET i == Len(out)
             prev == out[i]
         IN EmaLoop(values, k,
                    Append(out, FAdd(FMul(values[i + 1], k), FMul(prev, FSub(FromInt(1), k)))))

\* sma(values, period)
Sma(values, period) ==
    IF Len(values) < period THEN Null
    ELSE FDiv(FSum(SubSeq(values, Len(values) - period + 1, Len(values))), FromInt(period))

\* ema(values, period): the average of the first period values, then the same
\* loop body as emaSeries; the value returned is the last one the loop computes
Ema(values, period) ==
    IF Len(values) < period THEN Null
    ELSE LET k == FDiv(FromInt(2), FromInt(period + 1))
             emaPrev == Sma(SubSeq(values, 1, period), period)
             steps == EmaLoop(values, k, Append(Nulls(period - 1), emaPrev))
         IN steps[Len(values)]

\* emaSeries had it started from the first value instead of the average
EmaSeriesSeedFirst(values, period) ==
    IF Len(values) < period THEN Nulls(Len(values))
    ELSE LET prev == values[1]
             k == FDiv(FromInt(2), FromInt(period + 1))
         IN EmaLoop(values, k, Append(Nulls(period - 1), prev))

\* emaSeries(values, period)
EmaSeries(values, period) ==
    IF Len(values) < period THEN Nulls(Len(values))
    ELSE LET prev == FDiv(FSum(SubSeq(values, 1, period)), FromInt(period))
             k == FDiv(FromInt(2), FromInt(period + 1))
         IN EmaLoop(values, k, Append(Nulls(period - 1), prev))

\* macdSeries(closePrices)
MacdSeries(closePrices) ==
    LET n == Len(closePrices)
        Macd(fast, slow) ==
            [i \in 1 .. n |->
                IF fast[i] # Null /\ slow[i] # Null THEN FSub(fast[i], slow[i]) ELSE Null]
        MacdVals(macd) == [i \in 1 .. n |-> IF macd[i] = Null THEN Zero ELSE macd[i]]
        Signal(macd, ema) == [i \in 1 .. n |-> IF macd[i] = Null THEN Null ELSE ema[i]]
        Hist(macd, signal) ==
            [i \in 1 .. n |->
                IF macd[i] = Null \/ signal[i] = Null THEN Null ELSE FSub(macd[i], signal[i])]
        Lines(macd, signal) == [macd |-> macd, signal |-> signal, hist |-> Hist(macd, signal)]
        WithSignal(macd) == Lines(macd, Signal(macd, EmaSeries(MacdVals(macd), MACD_SIGNAL)))
    IN WithSignal(Macd(EmaSeries(closePrices, MACD_FAST), EmaSeries(closePrices, MACD_SLOW)))

\* the inner loop of findLocalExtrema over the window of i, from j on: whether the
\* centre is still a high and still a low once every neighbour has been compared
RECURSIVE WindowScan(_, _, _, _, _)
WindowScan(values, i, j, last, flags) ==
    IF j > last THEN flags
    ELSE IF j = i THEN WindowScan(values, i, j + 1, last, flags)
    ELSE WindowScan(values, i, j + 1, last,
                    [isHigh |-> flags.isHigh /\ FLess(values[j + 1], values[i + 1]),
                     isLow |-> flags.isLow /\ FGreater(values[j + 1], values[i + 1])])

\* findLocalExtrema had a neighbour equal to the centre not disqualified it
FindLocalExtremaTies(values, lookback) ==
    LET n == Len(values)
        Window(i) == {j \in i - lookback .. i + lookback : j # i}
        picked(high) ==
            {i \in lookback .. n - lookback - 1 :
                \A j \in Window(i) : IF high THEN ~FGreater(values[j + 1], values[i + 1])
                                              ELSE ~FLess(values[j + 1], values[i + 1])}
        RECURSIVE Sorted(_)
        Sorted(S) == IF S = {} THEN <<>>
                     ELSE LET m == CHOOSE x \in S : \A y \in S : x <= y
                          IN <<m>> \o Sorted(S \ {m})
    IN [highs |-> Sorted(picked(TRUE)), lows |-> Sorted(picked(FALSE))]

\* findLocalExtrema(values, lookback): the outer loop visits the centres
\* lookback .. length - lookback - 1 in order and pushes each one the inner loop
\* left a high onto highs, each one it left a low onto lows
FindLocalExtrema(values, lookback) ==
    LET centres == [c \in 1 .. Len(values) - 2 * lookback |-> lookback + c - 1]
        flags == [c \in DOMAIN centres |->
                     WindowScan(values, centres[c], centres[c] - lookback,
                                centres[c] + lookback, [isHigh |-> TRUE, isLow |-> TRUE])]
        IsHigh(i) == flags[i - lookback + 1].isHigh
        IsLow(i) == flags[i - lookback + 1].isLow
    IN [highs |-> SelectSeq(centres, IsHigh), lows |-> SelectSeq(centres, IsLow)]

\* the lookback checkDivergence passes
DIVERGENCE_LOOKBACK == 6

\* checkDivergence had it compared the closes of the two extrema only
CheckDivergencePriceOnly(closePrices, macdSeriesArr) ==
    LET macd == macdSeriesArr.macd
        Bearish(highs) ==
            /\ Len(highs) >= 2
            /\ LET i1 == highs[Len(highs) - 1]
                   i2 == highs[Len(highs)]
               IN /\ macd[i1 + 1] # Null
                  /\ macd[i2 + 1] # Null
                  /\ FGreater(closePrices[i2 + 1], closePrices[i1 + 1])
        Bullish(lows) ==
            /\ Len(lows) >= 2
            /\ LET i1 == lows[Len(lows) - 1]
                   i2 == lows[Len(lows)]
               IN /\ macd[i1 + 1] # Null
                  /\ macd[i2 + 1] # Null
                  /\ FLess(closePrices[i2 + 1], closePrices[i1 + 1])
        Pattern(ex) ==
            IF Bearish(ex.highs) THEN "bearish-div"
            ELSE IF Bullish(ex.lows) THEN "bullish-div"
            ELSE "none"
    IN Pattern(FindLocalExtrema(closePrices, DIVERGENCE_LOOKBACK))

\* checkDivergence(closePrices, macdSeriesArr): the bearish pattern is tried first
CheckDivergence(closePrices, macdSeriesArr) ==
    LET macd == macdSeriesArr.macd
        Bearish(highs) ==
            /\ Len(highs) >= 2
            /\ LET i1 == highs[Len(highs) - 1]
                   i2 == highs[Len(highs)]
               IN /\ macd[i1 + 1] # Null
                  /\ macd[i2 + 1] # Null
                  /\ FGreater(closePrices[i2 + 1], closePrices[i1 + 1])
                  /\ FLess(macd[i2 + 1], macd[i1 + 1])
        Bullish(lows) ==
            /\ Len(lows) >= 2
            /\ LET i1 == lows[Len(lows) - 1]
                   i2 == lows[Len(lows)]
               IN /\ macd[i1 + 1] # Null
                  /\ macd[i2 + 1] # Null
                  /\ FLess(closePrices[i2 + 1], closePrices[i1 + 1])
                  /\ FGreater(macd[i2 + 1], macd[i1 + 1])
        Pattern(ex) ==
            IF Bearish(ex.highs) THEN "bearish-div"
            ELSE IF Bullish(ex.lows) THEN "bullish-div"
            ELSE "none"
    IN Pattern(FindLocalExtrema(closePrices, DIVERGENCE_LOOKBACK))

\* the cross had the comparisons let equal readings through
CrossOfNonStrict(macdPrev, signalPrev, macdNow, signalNow) ==
    IF ~FLess(macdPrev, signalPrev) /\ ~FGreater(macdNow, signalNow) THEN "bearish-cross"
    ELSE IF ~FGreater(macdPrev, signalPrev) /\ ~FLess(macdNow, signalNow) THEN "bullish-cross"
    ELSE "none"

\* the cross analyzeTicker reads off the two latest readings: the bearish test is
\* the later assignment and would win, were both to hold
CrossOf(macdPrev, signalPrev, macdNow, signalNow) ==
    IF FGreater(macdPrev, signalPrev) /\ FLess(macdNow, signalNow) THEN "bearish-cross"
    ELSE IF FLess(macdPrev, signalPrev) /\ FGreater(macdNow, signalNow) THEN "bullish-cross"
    ELSE "none"

\* the latest index (from 0) at which both lines are defined, -1 if there is none
LatestIdx(macdObj) ==
    LET defined == {i \in 0 .. Len(macdObj.macd) - 1 :
                       macdObj.macd[i + 1] # Null /\ macdObj.signal[i + 1] # Null}
    IN IF defined = {} THEN -1 ELSE CHOOSE i \in defined : \A j \in defined : j <= i

NoAnalysis == [ok |-> FALSE, cross |-> "none", divergence |-> "none", idx |-> -1]

\* analyzeTicker on the closes fetched: null, or the cross at the latest index
AnalyzeCloses(closePrices) ==
    LET Cross(macdPrev, signalPrev, macdNow, signalNow) ==
            IF Null \in {macdPrev, signalPrev, macdNow, signalNow} THEN "none"
            ELSE CrossOf(macdPrev, signalPrev, macdNow, signalNow)
        At(macdObj, idx) ==
            IF idx < 1 THEN NoAnalysis
            ELSE [ok |-> TRUE,
                  cross |-> Cross(macdObj.macd[idx], macdObj.signal[idx],
                                  macdObj.macd[idx + 1], macdObj.signal[idx + 1]),
                  divergence |-> CheckDivergence(closePrices, macdObj),
                  idx |-> idx]
        Latest(macdObj) == At(macdObj, LatestIdx(macdObj))
    IN IF Len(closePrices) < MACD_SLOW + MACD_SIGNAL + 2 THEN NoAnalysis
       ELSE Latest(MacdSeries(closePrices))

(********************** the indicator functions called *********************)
\* The indicator functions of the macd program called on a price history; the
\* closes are number literals with one decimal.  A behaviour follows one function
\* on one history, called once or again.
PriceLevels == {Num(1, 10), FromInt(5), Num(1003, 10)}

RECURSIVE SeqsUpTo(_, _)
SeqsUpTo(S, n) ==
    IF n = 0 THEN {<<>>}
    ELSE LET shorter == SeqsUpTo(S, n - 1)
         IN shorter \cup {Append(q, x) : q \in {r \in shorter : Len(r) = n - 1}, x \in S}

ShortHistories == SeqsUpTo(PriceLevels, ShortBars)

\* n bars, the first s of them at a and the later ones at b
TwoLevels(a, b, s, n) == [i \in 1 .. n |-> IF i <= s THEN a ELSE b]

\* histories of the lengths at which the lines become defined, stepping after bar
\* MACD_SLOW, and histories of MinBars bars stepping after one of four bars
LongHistories ==
    {TwoLevels(a, b, MACD_SLOW, n) :
        a \in PriceLevels, b \in PriceLevels,
        n \in {MACD_SLOW - 1, MACD_SLOW, MACD_SLOW + MACD_SIGNAL - 2,
               MACD_SLOW + MACD_SIGNAL - 1, MACD_SLOW + MACD_SIGNAL + 2}}
    \cup {TwoLevels(a, b, s, MinBars) :
             a \in PriceLevels, b \in PriceLevels, s \in {18, 19, 23, 36}}

\* a flat history at base with a spike to mid at bar MACD_SLOW, later a block of
\* len bars at far, and a spike to far after DIVERGENCE_LOOKBACK bars back at base
Spikes(base, mid, far, len) ==
    LET flat(n) == [i \in 1 .. n |-> base]
    IN flat(MACD_SLOW - 1) \o <<mid>> \o flat(DIVERGENCE_LOOKBACK)
       \o [i \in 1 .. len |-> far] \o flat(DIVERGENCE_LOOKBACK) \o <<far>>
       \o flat(DIVERGENCE_LOOKBACK)

SpikeHistories ==
    {Spikes(base, mid, far, len) :
        base \in PriceLevels, mid \in PriceLevels, far \in PriceLevels, len \in {2, 17}}

EmaPeriods == {1, 2, 3, MACD_SIGNAL, MACD_FAST, MACD_SLOW}

\* emaSeries(closes, period) and ema(closes, period)
CallEmaSeries(period) ==
    /\ calc.op \in {"none", "emaSeries"}
    /\ calc' = [op |-> "emaSeries", period |-> period, out |-> EmaSeries(closes, period),
                last |-> Ema(closes, period)]
    /\ UNCHANGED <<variant, now, WATCHLIST, gateVars, tokens, lastRefill, rateLimiter,
                   scanning, loopHandle, nextTickAt, passes, event, pendingAllow,
                   lastRecordAt, manualScans, closes>>

\* findLocalExtrema(closes, lookback)
CallFindLocalExtrema(lookback) ==
    /\ calc.op \in {"none", "findLocalExtrema"}
    /\ calc' = [op |-> "findLocalExtrema", period |-> lookback,
                out |-> FindLocalExtrema(closes, lookback), last |-> Null]
    /\ UNCHANGED <<variant, now, WATCHLIST, gateVars, tokens, lastRefill, rateLimiter,
                   scanning, loopHandle, nextTickAt, passes, event, pendingAllow,
                   lastRecordAt, manualScans, closes>>

\* checkDivergence(closes, macdSeries(closes))
CallCheckDivergence ==
    /\ calc.op \in {"none", "checkDivergence"}
    /\ calc' = [op |-> "checkDivergence", period |-> 0,
                out |-> CheckDivergence(closes, MacdSeries(closes)), last |-> Null]
    /\ UNCHANGED <<variant, now, WATCHLIST, gateVars, tokens, lastRefill, rateLimiter,
                   scanning, loopHandle, nextTickAt, passes, event, pendingAllow,
                   lastRecordAt, manualScans, closes>>

\* analyzeTicker once fetchCloseSeries has resolved with closes
CallAnalyzeTicker ==
    /\ calc.op \in {"none", "analyzeTicker"}
    /\ calc' = [op |-> "analyzeTicker", period |-> 0, out |-> AnalyzeCloses(closes),
                last |-> Null]
    /\ UNCHANGED <<variant, now, WATCHLIST, gateVars, tokens, lastRefill, rateLimiter,
                   scanning, loopHandle, nextTickAt, passes, event, pendingAllow,
                   lastRecordAt, manualScans, closes>>

\* macdSeries(closes)
CallMacdSeries ==
    /\ calc.op \in {"none", "macdSeries"}
    /\ calc' = [op |-> "macdSeries", period |-> 0, out |-> MacdSeries(closes), last |-> Null]
    /\ UNCHANGED <<variant, now, WATCHLIST, gateVars, tokens, lastRefill, rateLimiter,
                   scanning, loopHandle, nextTickAt, passes, event, pendingAllow,
                   lastRecordAt, manualScans, closes>>

InitIndicator ==
    /\ variant = "macd"
    /\ now = StartClock
    /\ WATCHLIST = InitWatchlist
    /\ lastAlertAt = [k \in Insts |-> FreshGate(now).last]
    /\ dailyAlerts = [k \in Insts |-> FreshGate(now).count]
    /\ lastDailyReset = [k \in Insts |-> DayOf(now)]
    /\ event = NoEvent
    /\ pendingAllow = [k \in Insts |-> [s \in Symbols |-> 0]]
    /\ lastRecordAt = [s \in Symbols |-> NoTime]
    /\ manualScans = 0
    /\ tokens = maxPerMinute * MsPerToken
    /\ lastRefill = now
    /\ rateLimiter = [k \in Insts |-> FreshLimiter]
    /\ scanning = FALSE
    /\ loopHandle = FALSE
    /\ nextTickAt = 0
    /\ passes = [p \in PassIds |-> IdlePass]
    /\ closes \in ShortHistories \cup LongHistories \cup SpikeHistories
    /\ calc = NoCalc

NextIndicator ==
    \/ \E period \in EmaPeriods : CallEmaSeries(period)
    \/ CallMacdSeries
    \/ CallAnalyzeTicker
    \/ \E lookback \in {1, 2, DIVERGENCE_LOOKBACK} : CallFindLocalExtrema(lookback)
    \/ CallCheckDivergence

SpecIndicator == InitIndicator /\ [][NextIndicator]_vars

(************************ checkMomentum called ******************************)
\* checkMomentum of the momentum and loop programs called on a sample.  Prices are
\* in thousandths of a dollar, percentages in tenths of a percent and relative
\* volumes in hundredths, so that every threshold is a whole number.
MIN_VOLUME == 500000
MIN_PRICE_CHANGE == 50
MIN_REL_VOLUME == 130
MAX_PRICE == 1000000
MIN_PRICE == 10

Abs(x) == IF x < 0 THEN -x ELSE x

\* the samples getStockData hands over: each reading on, just inside and just
\* outside its threshold
Samples ==
    [price : {MIN_PRICE - 1, MIN_PRICE, 5000, MAX_PRICE, MAX_PRICE + 1},
     volume : {MIN_VOLUME - 1, MIN_VOLUME},
     change_pct : {-MIN_PRICE_CHANGE, 1 - MIN_PRICE_CHANGE, MIN_PRICE_CHANGE - 1, MIN_PRICE_CHANGE},
     rel_volume : {MIN_REL_VOLUME - 1, MIN_REL_VOLUME}]

\* checkMomentum had the move test turned away a move of exactly the threshold
CheckMomentumStrictMove(data) ==
    IF data.price > MAX_PRICE THEN [ok |-> FALSE, reason |-> "Price too high"]
    ELSE IF data.price < MIN_PRICE THEN [ok |-> FALSE, reason |-> "Price too low"]
    ELSE IF data.volume < MIN_VOLUME THEN [ok |-> FALSE, reason |-> "Volume too low"]
    ELSE IF Abs(data.change_pct) <= MIN_PRICE_CHANGE THEN [ok |-> FALSE, reason |-> "Move too small"]
    ELSE IF data.rel_volume < MIN_REL_VOLUME THEN [ok |-> FALSE, reason |-> "RelVol too low"]
    ELSE [ok |-> TRUE, reason |-> "Momentum detected!"]

\* checkMomentum(data) for a sample that is there
CheckMomentum(data) ==
    IF data.price > MAX_PRICE THEN [ok |-> FALSE, reason |-> "Price too high"]
    ELSE IF data.price < MIN_PRICE THEN [ok |-> FALSE, reason |-> "Price too low"]
    ELSE IF data.volume < MIN_VOLUME THEN [ok |-> FALSE, reason |-> "Volume too low"]
    ELSE IF Abs(data.change_pct) < MIN_PRICE_CHANGE THEN [ok |-> FALSE, reason |-> "Move too small"]
    ELSE IF data.rel_volume < MIN_REL_VOLUME THEN [ok |-> FALSE, reason |-> "RelVol too low"]
    ELSE [ok |-> TRUE, reason |-> "Momentum detected!"]

CallCheckMomentum(data) ==
    /\ variant \in {"momentum", "loop"}
    /\ calc' = [op |-> "checkMomentum", period |-> 0, out |-> CheckMomentum(data),
                last |-> Null, data |-> data]
    /\ UNCHANGED <<variant, now, WATCHLIST, gateVars, tokens, lastRefill, rateLimiter,
                   scanning, loopHandle, nextTickAt, passes, event, pendingAllow,
                   lastRecordAt, manualScans, closes>>

InitMomentum == InitCold /\ variant \in {"momentum", "loop"}

NextMomentum == \E data \in Samples : CallCheckMomentum(data)

SpecMomentum == InitMomentum /\ [][NextMomentum]_vars

(****************************** properties *********************************)
Cooldown == ALERT_COOLDOWN_MINUTES * MsPerMinute

\* the stored alert state of the ticker the last step was about
EventLast == lastAlertAt[event.inst][event.sym]
EventCount == dailyAlerts[event.inst][event.sym]

\* a pass is over: it returned to its trigger, or start() of loop sleeps after it
Over(p) == passes[p].pc \in {"idle", "scanWait", "errorWait"} /\ passes[p].total > 0

\* C1: at most one scan pass is in flight at any time: a trigger that arrives
\* while a pass runs never starts a second pass beside it.
OneScanInFlight == Cardinality({p \in PassIds : InFlight(p)}) <= 1

\* C2: cooldown safety: a recordAlert for a ticker comes at least the cooldown
\* after the previous recordAlert for that ticker on the same alert store.
CooldownBetweenRecords ==
    event.op = "sendOk" =>
        event.priorLast = NoTime \/ now - event.priorLast >= Cooldown

\* C3: daily quota: the stored per-ticker daily counter never exceeds
\* MAX_ALERTS_PER_DAY.
DailyQuotaKept ==
    \A k \in Insts, s \in Symbols : dailyAlerts[k][s] <= MAX_ALERTS_PER_DAY

\* C4: canAlert returns allow if and only if, after the day-rollover bookkeeping,
\* the ticker's count is below the quota and the ticker has no recorded alert
\* or its last alert is at least the cooldown old.
CanAlertIffQuotaAndCooldown ==
    event.op = "canAlert" =>
        (event.ok <=> /\ EventCount < MAX_ALERTS_PER_DAY
                      /\ (EventLast = NoTime \/ now - EventLast >= Cooldown))

\* a canAlert allowed a ticker whose last alert is exactly the cooldown old
CanAlertAtCooldownEdge ==
    /\ event.op = "canAlert"
    /\ event.ok
    /\ EventLast # NoTime
    /\ now - EventLast = Cooldown

\* C5 as stated: the first canAlert on a new calendar day returns allow whatever
\* the ticker's prior count and whenever its last alert was recorded.
RolloverAlwaysAllows ==
    event.op = "canAlert" /\ event.rolled => event.ok

\* C5 amended: the first canAlert on a new calendar day returns allow whatever
\* the ticker's prior count, provided the ticker has no recorded alert or its
\* last alert is at least the cooldown old; the cooldown runs across midnight.
RolloverAllowsAfterCooldown ==
    event.op = "canAlert" /\ event.rolled =>
        /\ EventCount = 0
        /\ (event.ok <=> (EventLast = NoTime \/ now - EventLast >= Cooldown))

\* the first canAlert of the day allowed a ticker that had used up its quota
RolloverAllowsFullQuota ==
    /\ event.op = "canAlert"
    /\ event.rolled
    /\ event.prior = MAX_ALERTS_PER_DAY
    /\ event.ok

\* C6: every recordAlert for a ticker is immediately preceded, among the gate
\* operations on that ticker, by the canAlert allow of the pass that records.
RecordFollowsOwnAllow ==
    event.op = "sendOk" => event.holder = event.pass

\* C7: when channel.send fails, recordAlert is not called and the ticker's
\* lastAlertAt and daily count stay as they were, so the next canAlert gives the
\* verdict it would have given without the attempt.
FailedSendLeavesAlertState ==
    event.op = "sendFail" =>
        /\ event.calls = 0
        /\ EventLast = event.priorLast
        /\ EventCount = event.prior

\* a send failed for a ticker that has alerted before
FailedSendSeen ==
    /\ event.op = "sendFail"
    /\ event.prior > 0
    /\ event.priorLast # NoTime

\* C8: a failure confined to one ticker never aborts the pass: every pass that
\* is over has evaluated every ticker of its watchlist and raised no error to
\* its trigger.
PassCoversWatchlist ==
    \A p \in PassIds : Over(p) => passes[p].done = passes[p].total /\ ~passes[p].err

\* C9 as stated: a ticker whose evaluation passes with no prior alerts produces
\* exactly one notification intent and exactly one recordAlert.
IntentAlwaysRecorded ==
    event.op \in {"sendOk", "sendFail"} /\ event.priorLast = NoTime => event.calls = 1

\* the step made a recordAlert call on store k for ticker s
Records(k, s) == dailyAlerts'[k][s] > dailyAlerts[k][s]

\* pass p goes to channel.send in this step
Intends(p) == passes[p].pc # "send" /\ passes'[p].pc = "send"

RecordsMatchDeliveriesStep ==
    /\ \A k \in Insts, s \in Symbols :
          /\ Records(k, s) <=> (event'.op = "sendOk" /\ event'.inst = k /\ event'.sym = s)
          /\ Records(k, s) => /\ dailyAlerts'[k][s] = dailyAlerts[k][s] + 1
                              /\ lastAlertAt'[k][s] = now
    /\ \A p \in PassIds :
          Intends(p) <=> (event'.op = "canAlert" /\ event'.pass = p /\ event'.ok /\ event'.passed)
    /\ (event'.op = "canAlert" /\ event'.passed /\ event'.priorLast = NoTime) => event'.ok
    /\ \A p \in PassIds :
          passes[p].pc = "send" /\ passes'[p].pc # "send" =>
              event'.op \in {"sendOk", "sendFail"} /\ event'.pass = p

\* C9 amended: the recordAlert calls for a ticker are exactly the deliveries the
\* notifier confirmed, one call each; a ticker whose evaluation passes with no
\* prior alerts produces exactly one notification intent, and one recordAlert
\* if and only if that delivery is confirmed.
RecordsMatchDeliveries == [][RecordsMatchDeliveriesStep]_vars

\* a delivery was confirmed and recorded for a ticker with no prior alerts
FirstAlertRecorded ==
    /\ event.op = "sendOk"
    /\ event.priorLast = NoTime
    /\ event.calls = 1
    /\ EventCount = 1

\* C10: scan-now and the timer act on the same state: a canAlert allows a ticker
\* only if no alert was recorded for it, by any pass, within the cooldown.
AllowSeesEveryRecord ==
    event.op = "canAlert" /\ event.ok =>
        lastRecordAt[event.sym] = NoTime \/ now - lastRecordAt[event.sym] >= Cooldown

\* the macd scan has just evaluated a series for event.sym
MacdEvaluated == variant = "macd" /\ event.op \in {"skip", "canAlert"}

\* the pass of the last step went on to channel.send for the ticker it evaluated
IntentEmitted ==
    /\ passes[event.pass].pc = "send"
    /\ Sym(passes[event.pass]) = event.sym

\* C11: the macd scan emits a notification intent for a ticker only if the cross
\* is bullish, histNow > histPrev strictly, price > prevPrice strictly and the
\* AlertGate allows; a bearish cross, no cross, a non-rising histogram or a
\* non-rising price gives no notification and no recordAlert.
IntentOnlyOnRisingBullishCross ==
    MacdEvaluated =>
        /\ IntentEmitted =>
              /\ event.data.macdPrev < event.data.signalPrev
              /\ event.data.macdNow > event.data.signalNow
              /\ event.data.macdNow - event.data.signalNow
                    > event.data.macdPrev - event.data.signalPrev
              /\ event.data.price > event.data.prevPrice
              /\ event.op = "canAlert"
              /\ event.ok
        /\ event.calls = 0
        /\ event.op = "canAlert" => EventCount <= event.prior /\ EventLast = event.priorLast

\* the macd scan emitted an intent for a bullish cross with a rising price
BullishIntentEmitted ==
    /\ MacdEvaluated
    /\ IntentEmitted
    /\ event.data.price > event.data.prevPrice

\* C20: a price history shorter than 37 bars makes analyzeTicker return null: the
\* scan raises no error, does not consult the AlertGate and emits no notification
\* for that ticker.
ShortHistorySkipped ==
    MacdEvaluated /\ event.data.bars < 37 =>
        /\ event.op = "skip"
        /\ ~IntentEmitted
        /\ ~passes[event.pass].err
        /\ passes[event.pass].done >= 1

\* the macd scan skipped a ticker with 36 bars
ShortHistorySeen ==
    /\ MacdEvaluated
    /\ event.data.bars = 36
    /\ event.op = "skip"

\* the step ran canAlert on store k
CanAlertOn(k) == event'.op = "canAlert" /\ event'.inst = k

\* the step set the last alert time of ticker s on store k, or raised its count
Mutates(k, s) ==
    \/ lastAlertAt'[k][s] \notin {lastAlertAt[k][s], NoTime}
    \/ dailyAlerts'[k][s] > dailyAlerts[k][s]

GateFrameStep ==
    \A k \in Insts :
        /\ CanAlertOn(k) =>
              /\ lastAlertAt'[k] = lastAlertAt[k]
              /\ dailyAlerts'[k] = IF DayOf(now) # lastDailyReset[k]
                                   THEN [s \in Symbols |-> 0]
                                   ELSE dailyAlerts[k]
        /\ \A s \in Symbols :
              Mutates(k, s) =>
                  /\ event'.op = "sendOk" /\ event'.inst = k /\ event'.sym = s
                  /\ dailyAlerts'[k][s] = dailyAlerts[k][s] + 1
                  /\ lastAlertAt'[k][s] = now
                  /\ lastDailyReset'[k] = lastDailyReset[k]
                  /\ \A x \in Symbols \ {s} :
                        /\ lastAlertAt'[k][x] = lastAlertAt[k][x]
                        /\ dailyAlerts'[k][x] = dailyAlerts[k][x]

\* C12: canAlert leaves every ticker's lastAlertAt unchanged and every count
\* unchanged unless the calendar day differs from the stored day, when only the
\* rollover reset happens; recordAlert(S) is the only operation that sets a
\* lastAlertAt or raises a count, it raises S's count by exactly 1 and leaves
\* every other ticker's state unchanged.
GateFrame == [][GateFrameStep]_vars

\* recordAlert ran for TSLA on a store that holds alert state for AAPL
RecordBesideOtherTicker ==
    /\ event.op = "sendOk"
    /\ event.sym = "TSLA"
    /\ dailyAlerts[event.inst]["AAPL"] > 0
    /\ lastAlertAt[event.inst]["AAPL"] # NoTime
    /\ lastAlertAt[event.inst]["AAPL"] # now

\* C13: from a full bucket of capacity maxPerMinute, that many consume() calls made
\* with no time elapsed all return without suspending, and the next one does not
\* return before the refill has had the time to bring one token; consume never
\* debits a bucket that holds less than one token.
BucketSuspendsAfterCapacity ==
    /\ tokens >= 0
    /\ now = StartClock =>
          \A p \in PassIds : passes[p].pc = "sleep" => GrantedTotal = maxPerMinute
    /\ GrantedTotal > maxPerMinute => (now - StartClock) * maxPerMinute >= MsPerMinute

\* one consume() beyond the capacity has returned
BucketRefilledOnce == GrantedTotal = maxPerMinute + 1

\* C14: in every interval of T seconds, with any number of concurrent callers, at
\* most C + C*T/60 consume() calls are granted.
BucketRateBound ==
    GrantedTotal * MsPerMinute <= maxPerMinute * MsPerMinute + maxPerMinute * (now - StartClock)

\* two passes have both been granted tokens and the bucket is spent
BucketSharedAndSpent ==
    /\ \A p \in 1 .. 2 : Granted(passes[p]) > 0
    /\ GrantedTotal >= maxPerMinute

\* C15: every call of acquire eventually returns, also when several callers wait on
\* the one gate: a pass that waits in consume() leaves it
ConsumeAlwaysReturns ==
    \A p \in PassIds : (passes[p].pc = "sleep") ~> (passes[p].pc # "sleep")

\* a wait() begins on limiter k, the first since a markRateLimited()
AcquireAfterReport(k) == rateLimiter[k].reported > 0 /\ rateLimiter'[k].reported = 0

BackoffOwedStep ==
    \A k \in Insts :
        AcquireAfterReport(k) =>
            \E p \in PassIds :
                /\ passes[p].pc # "backoff"
                /\ passes'[p].pc = "backoff"
                /\ passes'[p].inst = k
                /\ 2 * (passes'[p].wakeAt - now) >= rateLimiter[k].reported

\* C16: after markRateLimited() the next wait() on the limiter suspends for at
\* least the backoffDelay that was in force before the report
BackoffOwedIsServed == [][BackoffOwedStep]_vars

\* wait() returns to pass p in this step
WaitReturns(p) == passes'[p].pc = "fetch" /\ passes'[p] # passes[p]

MinDelayStep ==
    \A p \in DOMAIN passes :
        variant \in {"momentum", "loop"} /\ WaitReturns(p) =>
            LET last == rateLimiter[passes'[p].inst].lastRequest
            IN last = NoTime \/ now - last >= minDelay

\* C17: two successive returns from wait() on one limiter are at least minDelay
\* apart, however the callers that share the limiter interleave
MinDelayBetweenReturns == [][MinDelayStep]_vars

\* a request of a pass on limiter k comes back and markRateLimited() runs
ThrottleReported(k) ==
    /\ \E p \in DOMAIN passes :
          passes[p].pc = "fetch" /\ passes[p].inst = k /\ passes'[p].pc # "fetch"
    /\ rateLimiter'[k] = MarkRateLimited(rateLimiter[k])

BackoffFrameStep ==
    \A k \in Insts :
        LET a == rateLimiter[k]
            b == rateLimiter'[k]
        IN /\ b.backoffDelay # a.backoffDelay =>
                 \/ ThrottleReported(k) /\ b.backoffDelay > a.backoffDelay
                 \/ event'.op = "reset" /\ k = 0
           /\ event'.op # "reset" => b.backoffDelay >= a.backoffDelay
           /\ event'.op = "reset" /\ k = 0 =>
                 /\ b.backoffDelay = 2 * initialBackoff
                 /\ b.rateLimited = a.rateLimited
                 /\ b.lastRequest = a.lastRequest

\* C18: backoffDelay changes only when markRateLimited() grows it and when reset()
\* sets it back to the initial 5000 ms; wait() and a request that brings a quote
\* leave it alone, so without reset() it never decreases; reset() leaves the
\* throttled flag and lastRequest as they were
BackoffFrame == [][BackoffFrameStep]_vars

\* reset() has been called on a limiter whose delay had grown and whose throttled
\* flag was set, after a request had gone out
ResetOfGrownBackoff ==
    /\ event.op = "reset"
    /\ event.prior > 2 * initialBackoff
    /\ rateLimiter[0].rateLimited
    /\ rateLimiter[0].lastRequest # NoTime

\* the request of pass p in getStockData failed in this step
QuoteFailed(p) ==
    /\ variant \in {"momentum", "loop"}
    /\ passes[p].pc = "fetch"
    /\ event'.op \in {"retry", "skip"}
    /\ event'.pass = p
    /\ event'.outcome \in {"error", "throttled"}

BoundedRetryStep ==
    \A p \in DOMAIN passes :
        LET ps == passes[p]
            k == ps.inst
        IN /\ variant \in {"momentum", "loop"} /\ WaitReturns(p) =>
                 /\ passes'[p].attempt \in {1, 2}
                 /\ rateLimiter'[k].lastRequest = now
           /\ QuoteFailed(p) /\ ps.attempt = 1 =>
                 /\ passes'[p].pc = "retryDelay"
                 /\ passes'[p].wakeAt = now + RETRY_DELAY
                 /\ passes'[p].j = ps.j
                 /\ passes'[p].done = ps.done
           /\ ps.pc = "retryDelay" /\ passes'[p] # ps =>
                 /\ passes'[p].attempt = 2
                 /\ passes'[p].j = ps.j
                 /\ passes'[p].pc \in {"backoff", "minDelay", "fetch"}
           /\ QuoteFailed(p) /\ ps.attempt = 2 =>
                 /\ event'.op = "skip"
                 /\ passes'[p].done = ps.done + 1
                 /\ passes'[p].pc # "retryDelay"
           /\ QuoteFailed(p) /\ event'.outcome = "throttled" =>
                 rateLimiter'[k] = MarkRateLimited(rateLimiter[k])

\* C19: a symbol is requested at most twice in a pass, each time after wait(); a
\* failed first attempt is followed after RETRY_DELAY by one more; a failed second
\* attempt skips the symbol; every throttling response calls markRateLimited()
\* before the next wait()
BoundedRetry == [][BoundedRetryStep]_vars

SuspendBeforeGrowthStep ==
    \A k \in Insts :
        AcquireAfterReport(k) =>
            \E p \in DOMAIN passes :
                /\ passes[p].pc # "backoff"
                /\ passes'[p].pc = "backoff"
                /\ passes'[p].inst = k
                /\ passes'[p].wakeAt - now = rateLimiter[k].reported \div 2

\* C21: when throttling is reported while backoffDelay = d, the next wait()
\* suspends for d, the value before the growth
SuspendBeforeGrowth == [][SuspendBeforeGrowthStep]_vars

\* closes is one value v repeated
ConstantCloses == \A i \in 1 .. Len(closes) : closes[i] = closes[1]

\* C23 as stated: for a constant series of value v the EMA equals v at every
\* defined index
EmaOfConstantIsConstant ==
    calc.op = "emaSeries" /\ ConstantCloses =>
        \A i \in 1 .. Len(closes) : calc.out[i] # Null => calc.out[i] = closes[1]

\* |x|
FAbs(x) == IF x.m < 0 THEN [x EXCEPT !.m = -@] ELSE x

\* x is within n units in the last place of v
WithinUlps(x, v, n) ==
    ~FGreater(FMul(FromInt(Pow2(MantissaBits)), FAbs(FSub(x, v))), FMul(FromInt(n), FAbs(v)))

\* C23: emaSeries(values, period) is null below index period - 1 and everywhere
\* when values is shorter than period; at index period - 1 it is sma of the first
\* period values; at every later index it is values[i] * k + ema[i - 1] * (1 - k)
\* with k = 2 / (period + 1); ema(values, period) is its last entry; for a constant
\* series v every defined entry is within period + 2 units in the last place of v
EmaSeeding ==
    calc.op = "emaSeries" =>
        LET n == Len(closes)
            period == calc.period
            k == FDiv(FromInt(2), FromInt(period + 1))
        IN /\ Len(calc.out) = n
           /\ \A i \in 0 .. n - 1 : (i < period - 1 \/ n < period) <=> calc.out[i + 1] = Null
           /\ n >= period => calc.out[period] = Sma(SubSeq(closes, 1, period), period)
           /\ \A i \in period .. n - 1 :
                 calc.out[i + 1] = FAdd(FMul(closes[i + 1], k),
                                        FMul(calc.out[i], FSub(FromInt(1), k)))
           /\ calc.last = IF n >= period THEN calc.out[n] ELSE Null
           /\ ConstantCloses =>
                 \A i \in 1 .. n :
                     calc.out[i] # Null => WithinUlps(calc.out[i], closes[1], period + 2)

\* a constant series whose EMA is defined beyond the seed and is not the constant
EmaOfConstantDrifts ==
    /\ calc.op = "emaSeries"
    /\ ConstantCloses
    /\ Len(closes) > calc.period
    /\ calc.out[Len(closes)] # Null
    /\ calc.out[Len(closes)] # closes[1]

\* C22: macd[i] is defined exactly for i >= MACD_SLOW - 1; signal[i] and hist[i] are
\* defined exactly for i >= MACD_SLOW + MACD_SIGNAL - 2, null below; the signal seed
\* is the simple average of the first MACD_SIGNAL defined MACD values
SignalDefinedOverDefinedMacd ==
    calc.op = "macdSeries" =>
        LET n == Len(closes)
            first == MACD_SLOW + MACD_SIGNAL - 2
        IN /\ \A i \in 0 .. n - 1 : calc.out.macd[i + 1] # Null <=> i >= MACD_SLOW - 1
           /\ \A i \in 0 .. n - 1 : calc.out.signal[i + 1] # Null <=> i >= first
           /\ \A i \in 0 .. n - 1 : calc.out.hist[i + 1] # Null <=> i >= first
           /\ n > first =>
                 calc.out.signal[first + 1] =
                     Sma(SubSeq(calc.out.macd, MACD_SLOW, first + 1), MACD_SIGNAL)

\* the indices (from 0) at which both lines of macdObj are defined
DefinedIndices(macdObj) ==
    {i \in 0 .. Len(macdObj.macd) - 1 :
        macdObj.macd[i + 1] # Null /\ macdObj.signal[i + 1] # Null}

CrossClassified ==
    calc.op = "analyzeTicker" =>
        \A macdObj \in {MacdSeries(closes)} : \A defined \in {DefinedIndices(macdObj)} :
            /\ Cardinality(defined) < 2 => ~calc.out.ok /\ calc.out.cross = "none"
            /\ calc.out.ok =>
                  \E idx \in defined, prev \in defined :
                      /\ \A j \in defined : j <= idx
                      /\ prev # idx
                      /\ \A j \in defined \ {idx} : j <= prev
                      /\ LET macdNow == macdObj.macd[idx + 1]
                             signalNow == macdObj.signal[idx + 1]
                             macdPrev == macdObj.macd[prev + 1]
                             signalPrev == macdObj.signal[prev + 1]
                             bullish == FLess(macdPrev, signalPrev) /\ FGreater(macdNow, signalNow)
                             bearish == FGreater(macdPrev, signalPrev) /\ FLess(macdNow, signalNow)
                         IN /\ calc.out.idx = idx
                            /\ calc.out.cross = "bullish-cross" <=> bullish
                            /\ calc.out.cross = "bearish-cross" <=> bearish
                            /\ calc.out.cross = "none" <=> ~bullish /\ ~bearish
                            /\ ~(bullish /\ bearish)
                            /\ CrossOf(signalPrev, macdPrev, signalNow, macdNow) =
                                   CASE calc.out.cross = "bullish-cross" -> "bearish-cross"
                                     [] calc.out.cross = "bearish-cross" -> "bullish-cross"
                                     [] OTHER -> "none"

\* analysing the same closes again gives the same result and changes nothing else
AnalyzeAgainStep ==
    calc'.op = "analyzeTicker" =>
        /\ UNCHANGED <<variant, now, WATCHLIST, gateVars, tokens, lastRefill, rateLimiter,
                       scanning, loopHandle, nextTickAt, passes, event, pendingAllow,
                       lastRecordAt, manualScans, closes>>
        /\ calc.op = "analyzeTicker" => calc' = calc

\* C24: the cross is bullish iff macdPrev < signalPrev and macdNow > signalNow at the
\* last two defined indices, bearish iff both inequalities are reversed, none
\* otherwise (any equality included) and never both; exchanging the two lines flips
\* bullish and bearish and keeps none; analysing the same history again gives the
\* same result and changes no state; fewer than two defined indices give no signal
CrossClassification == []CrossClassified /\ [][AnalyzeAgainStep]_vars

\* a bullish cross found at the last two readings of a history
CrossFound ==
    /\ calc.op = "analyzeTicker"
    /\ calc.out.ok
    /\ calc.out.cross = "bullish-cross"

\* the local highs (low = FALSE) or lows of the closes for a lookback: the indices
\* (from 0) at least lookback from either end whose close is strictly above (below)
\* every other close within lookback of it
LocalExtrema(lookback, low) ==
    {i \in 0 .. Len(closes) - 1 :
        /\ lookback <= i
        /\ i < Len(closes) - lookback
        /\ \A j \in 0 .. Len(closes) - 1 :
              (j # i /\ j >= i - lookback /\ j <= i + lookback) =>
                  IF low THEN FLess(closes[i + 1], closes[j + 1])
                         ELSE FGreater(closes[i + 1], closes[j + 1])}

Range(seq) == {seq[i] : i \in DOMAIN seq}

\* C26: findLocalExtrema(values, lookback) returns i as a local high iff
\* lookback <= i < length - lookback and values[i] is strictly greater than every
\* other value within lookback of i, symmetrically for lows; no index within
\* lookback of either end is returned, no index is both a high and a low, and a
\* tie with a neighbour in the window disqualifies an index
ExtremaAreStrict ==
    calc.op = "findLocalExtrema" =>
        LET lookback == calc.period
            highs == Range(calc.out.highs)
            lows == Range(calc.out.lows)
        IN /\ highs = LocalExtrema(lookback, FALSE)
           /\ lows = LocalExtrema(lookback, TRUE)
           /\ \A i \in highs \cup lows : lookback <= i /\ i < Len(closes) - lookback
           /\ highs \cap lows = {}
           /\ \A i \in highs \cup lows :
                 \A j \in 0 .. Len(closes) - 1 :
                     (j # i /\ j >= i - lookback /\ j <= i + lookback) =>
                         closes[j + 1] # closes[i + 1]

\* a local high found beside a close that ties with another in its window
HighFoundBesideTie ==
    /\ calc.op = "findLocalExtrema"
    /\ calc.out.highs # <<>>
    /\ \E i \in 1 .. Len(closes) - 1 : closes[i] = closes[i + 1]

\* the two most recent of a set of indices, earlier first; <<>> if fewer than two
LastTwo(S) ==
    IF Cardinality(S) < 2 THEN <<>>
    ELSE LET i2 == CHOOSE i \in S : \A j \in S : j <= i
             i1 == CHOOSE i \in S \ {i2} : \A j \in S \ {i2} : j <= i
         IN <<i1, i2>>

\* the bearish pattern of the closes (low = FALSE): two local highs or more, the
\* later of the last two at a higher close and a lower, defined, MACD value; and the
\* bullish pattern on the local lows
DivergencePattern(low) ==
    \E two \in {LastTwo(LocalExtrema(DIVERGENCE_LOOKBACK, low))} :
        /\ two # <<>>
        /\ \E macd \in {MacdSeries(closes).macd} :
              /\ macd[two[1] + 1] # Null
              /\ macd[two[2] + 1] # Null
              /\ IF low THEN /\ FLess(closes[two[2] + 1], closes[two[1] + 1])
                             /\ FGreater(macd[two[2] + 1], macd[two[1] + 1])
                        ELSE /\ FGreater(closes[two[2] + 1], closes[two[1] + 1])
                             /\ FLess(macd[two[2] + 1], macd[two[1] + 1])

\* C25: checkDivergence reports a bearish divergence only when there are two local
\* highs or more and, at the two most recent, the later close is higher and the
\* later MACD value lower, both defined; a bullish divergence only under the
\* symmetric condition on the two most recent local lows; fewer than two highs
\* never give bearish, fewer than two lows never bullish; a call reports one result
\* at most, and none when neither pattern holds
DivergenceNeedsTwoExtrema ==
    calc.op = "checkDivergence" =>
        /\ calc.out \in {"bearish-div", "bullish-div", "none"}
        /\ calc.out = "bearish-div" => DivergencePattern(FALSE)
        /\ calc.out = "bullish-div" => DivergencePattern(TRUE)
        /\ Cardinality(LocalExtrema(DIVERGENCE_LOOKBACK, FALSE)) < 2 => calc.out # "bearish-div"
        /\ Cardinality(LocalExtrema(DIVERGENCE_LOOKBACK, TRUE)) < 2 => calc.out # "bullish-div"
        /\ ~DivergencePattern(FALSE) /\ ~DivergencePattern(TRUE) => calc.out = "none"

\* a bearish divergence reported
BearishDivergenceFound ==
    /\ calc.op = "checkDivergence"
    /\ calc.out = "bearish-div"

\* a bullish divergence reported
BullishDivergenceFound ==
    /\ calc.op = "checkDivergence"
    /\ calc.out = "bullish-div"

\* two local highs that are no divergence
TwoHighsNoDivergence ==
    /\ calc.op = "checkDivergence"
    /\ calc.out = "none"
    /\ Cardinality(LocalExtrema(DIVERGENCE_LOOKBACK, FALSE)) >= 2

\* the checks of checkMomentum that the sample of the last call fails, in the order
\* the reasons are reported
FailedChecks ==
    LET d == calc.data
        checks == <<[fails |-> d.price > MAX_PRICE, reason |-> "Price too high"],
                    [fails |-> d.price < MIN_PRICE, reason |-> "Price too low"],
                    [fails |-> d.volume < MIN_VOLUME, reason |-> "Volume too low"],
                    [fails |-> Abs(d.change_pct) < MIN_PRICE_CHANGE, reason |-> "Move too small"],
                    [fails |-> d.rel_volume < MIN_REL_VOLUME, reason |-> "RelVol too low"]>>
    IN SelectSeq(checks, LAMBDA c : c.fails)

MomentumChecked ==
    calc.op = "checkMomentum" =>
        LET d == calc.data
        IN /\ calc.out.ok <=> /\ MIN_PRICE <= d.price
                              /\ d.price <= MAX_PRICE
                              /\ d.volume >= MIN_VOLUME
                              /\ Abs(d.change_pct) >= MIN_PRICE_CHANGE
                              /\ d.rel_volume >= MIN_REL_VOLUME
           /\ ~calc.out.ok => FailedChecks # <<>> /\ calc.out.reason = FailedChecks[1].reason

\* a call of checkMomentum leaves the alert gates and the rate limiters as they were
MomentumPureStep ==
    calc'.op = "checkMomentum" => UNCHANGED <<gateVars, rateLimiter, tokens, lastRefill>>

ItemEnds(p) ==
    /\ variant \in {"momentum", "loop"}
    /\ \/ /\ passes[p].pc = "fetch"
          /\ passes'[p].done = passes[p].done + 1
          /\ passes'[p].pc # "send"
       \/ /\ passes[p].pc = "send"
          /\ passes'[p].pc # "send"

PacedStep ==
    \A p \in DOMAIN passes :
        ItemEnds(p) /\ ~passes'[p].err =>
                       /\ passes'[p].pc = "itemDelay"
                       /\ passes'[p].wakeAt = now + DELAY_BETWEEN_STOCKS
                       /\ passes'[p].j = passes[p].j
                       /\ passes'[p].tickers = passes[p].tickers

\* C28: a scan pass takes the watchlist symbols in order, in batches of BATCH_SIZE,
\* and the per-item delay follows every item, one whose fetch returned no data
\* included, before the pass moves to the next item or ends the batch (a pass that
\* a rejected channel.send has ended apart)
ItemDelayFollowsEveryItem == [][PacedStep]_vars

\* the pass of slot p has ended with every ticker of its watchlist done and no error
Whole(p) == Over(p) /\ passes[p].done = passes[p].total /\ ~passes[p].err

\* the pass of slot p sleeps in a delay that ends after the clock stops
PastHorizon(p) == InFlight(p) /\ passes[p].pc \in TimerPcs /\ passes[p].wakeAt > MaxClock

\* the pass of slot p returns in this step
PassReturnsStep(p) == InFlight(p) /\ ~InFlight(p)'

\* a pass that returns has reached the end of its watchlist
ReturnsWholeStep == \A p \in PassIds : PassReturnsStep(p) => Whole(p)'

\* C29: when every gate wait, pacing delay, fetch and send returns, a started pass
\* reaches the end of its watchlist: it does return, and no pass is cancelled midway
PassRunsToCompletion ==
    /\ \A p \in PassIds : InFlight(p) ~> (Over(p) \/ PastHorizon(p))
    /\ [][ReturnsWholeStep]_vars

\* channel.send is called for a ticker in this step
NotifiedStep(p) == passes[p].pc # "send" /\ passes'[p].pc = "send"

RemovedStaysSilentStep ==
    \A p \in PassIds :
        NotifiedStep(p) => \E n \in DOMAIN WATCHLIST : WATCHLIST[n] = Sym(passes'[p])

\* C30: a watchlist command that completes while a pass is suspended does not
\* disturb the pass, and no notification is emitted for a symbol once its
\* remove-ticker has completed: every channel.send is for a symbol of WATCHLIST
RemovedStaysSilent == [][RemovedStaysSilentStep]_vars

\* the request of pass p to the data source is made in this step
PassRequestStep(p) ==
    /\ passes'[p].pc = "fetch"
    /\ \/ passes[p].pc # "fetch"
       \/ <<passes'[p].i, passes'[p].j, passes'[p].attempt, passes'[p].done>>
              # <<passes[p].i, passes[p].j, passes[p].attempt, passes[p].done>>

\* a command makes its request to the data source in this step
CommandRequestStep == event'.op = "request"

\* an acquire on the gate returns in this step: consume() debits a token of the
\* bucket, or wait() of limiter k stamps lastRequest
AcquireReturnsStep(k) ==
    IF variant = "macd"
    THEN tokens' = Refill(tokens, lastRefill, now).tokens - MsPerToken
    ELSE rateLimiter'[k].lastRequest = now /\ rateLimiter[k].lastRequest # now

GatedRequestStep ==
    /\ \A p \in PassIds : PassRequestStep(p) => AcquireReturnsStep(passes'[p].inst)
    /\ CommandRequestStep => \E k \in Insts : AcquireReturnsStep(k)

\* C31: every request to the market-data source, of a scan, of add-ticker or of the
\* price command, is made by a step in which an acquire on the fetch gate returns:
\* each request has an acquire of its own
EveryRequestGated == [][GatedRequestStep]_vars

\* the callers whose consume() returns in this step: passes, and 0 for a command
ConsumeReturns ==
    {p \in PassIds : PassRequestStep(p)} \cup {k \in {0} : CommandRequestStep}

\* what the bucket holds once the time since lastRefill has been credited
Credited == Min(maxPerMinute * MsPerToken, tokens + (now - lastRefill))

BucketStep ==
    /\ lastRefill' >= lastRefill
    /\ Cardinality(ConsumeReturns) <= 1
    /\ IF ConsumeReturns = {}
       THEN tokens' \in {tokens, Credited}
       ELSE tokens' = Credited - MsPerToken

\* C32: the bucket holds between 0 and maxPerMinute tokens in every state, whatever
\* the number of callers inside consume(); a consume() that returns has debited
\* exactly one token, from the refilled bucket, nothing else debits, and lastRefill
\* never decreases
BucketStateKept ==
    /\ [](0 <= tokens /\ tokens <= maxPerMinute * MsPerToken)
    /\ [][BucketStep]_vars

\* two callers are inside fetchCloseSeries, one asleep in consume() over a bucket
\* that has been refilled since the start and holds less than a token
BucketSpentUnderTwo ==
    /\ \E p \in PassIds : passes[p].pc = "sleep"
    /\ \E p \in PassIds : passes[p].pc = "fetch"
    /\ lastRefill > StartClock
    /\ tokens < MsPerToken

\* pass p begins the back-off sleep of wait() in this step
BackoffBegins(p) == passes[p].pc # "backoff" /\ passes'[p].pc = "backoff"

\* the back-off sleep of pass p is over in this step and wait() goes on
BackoffEnds(p) == passes[p].pc = "backoff" /\ passes'[p].pc # "backoff"

OneBackoffStep ==
    \A p \in PassIds :
        LET k == passes'[p].inst
        IN /\ BackoffBegins(p) => rateLimiter[k].reported > 0
           /\ BackoffEnds(p) =>
                 /\ ~rateLimiter'[passes[p].inst].rateLimited
                 /\ passes'[p].pc \in {"minDelay", "fetch"}

BackoffInRange ==
    \A k \in Insts :
        /\ 2 * initialBackoff <= rateLimiter[k].backoffDelay
        /\ rateLimiter[k].backoffDelay <= 2 * maxBackoff

\* C33: backoffDelay stays between its initial value and its cap, and one
\* markRateLimited() causes one back-off sleep: a wait() begins the sleep only as
\* the first wait() since a report, the wait() that slept clears the flag and goes
\* on to the minimum-delay test
OneBackoffPerReport == []BackoffInRange /\ [][OneBackoffStep]_vars

====
